---------------------------- MODULE Spec2Model ----------------------------
(***************************************************************************)
(* A model of two parts of the personal-assistant repository:              *)
(*                                                                         *)
(*   - the plugin pipeline of personal_assistant/main.py                   *)
(*     (load_active_plugins and main), as a state machine over the         *)
(*     configuration file, the output directory and the run log;           *)
(*   - the diary converter of personal_assistant/tools/diary_to_xml.py     *)
(*     (DiaryConverter.parse_day_header, parse and build_xml), as a        *)
(*     line-by-line state machine over a diary document.                   *)
(*                                                                         *)
(* Text is a sequence of atomic pieces, so that concatenation, order and   *)
(* equality of file contents are those of the strings the code builds.     *)
(***************************************************************************)
EXTENDS Integers, Sequences, FiniteSets, TLC

(***************************************************************************)
(*                          PLUGIN PIPELINE                                *)
(***************************************************************************)

\* The plugin identifiers a configuration may list.
PluginNames == {"a", "b", "c"}

\* The raw texts a plugin's get_output() may return under "output".
OutputTexts == {<<"t1">>, <<"t2">>}

\* Longest configured plugin list.
MaxPlugins == 3

RECURSIVE SeqsUpTo(_, _)
\* All sequences over S of length at most n.
SeqsUpTo(S, n) ==
    IF n = 0 THEN {<<>>}
    ELSE LET shorter == SeqsUpTo(S, n - 1)
         IN  shorter \cup
             {Append(s, x) : s \in {t \in shorter : Len(t) = n - 1}, x \in S}

\* active_plugins of plugin_config.yml: an ordered list of distinct identifiers.
Configs ==
    {c \in SeqsUpTo(PluginNames, MaxPlugins) :
        \A i, j \in 1..Len(c) : i # j => c[i] # c[j]}

\* FULL_CONTEXT_FILE_PATH: the aggregate file's name in the output directory.
FULL_CONTEXT_FILE == <<"0_all", ".output.txt">>

\* f"{plugin_name}.output.txt", kept as the pair that identifies the file.
OutputFileName(plugin_name) == <<plugin_name, ".output.txt">>

\* PluginOutput without the marker line: the raw output alone.
PluginOutputNoMarker(plugin_name, output) == output

\* f"[[ {plugin_name} ]]\n{output}": the text main() writes to a plugin's file.
PluginOutput(plugin_name, output) == <<"[[ ", plugin_name, " ]]", "\n">> \o output

VARIABLES
    configExists,   \* os.path.exists(PLUGIN_CONFIG_FILE)
    config,         \* the active_plugins list of the configuration file
    dirExists,      \* os.path.exists(PLUGIN_OUTPUT_DIR)
    files,          \* the files of PLUGIN_OUTPUT_DIR: file name -> content
    pc,             \* where main() is
    plugins,        \* the modules load_active_plugins has loaded, in order
    k,              \* load_active_plugins: position in active_plugin_names
    i,              \* main: position in plugins (run loop) or in names (aggregation)
    log,            \* what the run has printed, in order
    outcome,        \* per plugin, what it did in this run
    produced,       \* per plugin, the output its get_output() returned in this run
    before          \* the output directory as it was when main() was invoked

pvars == <<configExists, config, dirExists, files, pc, plugins, k, i, log,
           outcome, produced, before>>

NoOutcome == [p \in PluginNames |-> "none"]
NoProduced == [p \in PluginNames |-> <<>>]
NoFiles == [f \in {} |-> <<>>]

\* The state before main() has ever run: no output directory yet.
PipelineInit ==
    /\ configExists = TRUE
    /\ config = <<>>
    /\ dirExists = FALSE
    /\ files = NoFiles
    /\ pc = "idle"
    /\ plugins = <<>>
    /\ k = 1
    /\ i = 1
    /\ log = <<>>
    /\ outcome = NoOutcome
    /\ produced = NoProduced
    /\ before = [dirExists |-> FALSE, files |-> NoFiles]

\* The file f written with content c (open(f, "w") creates or truncates).
WriteFile(fs, f, c) == [g \in DOMAIN fs \cup {f} |-> IF g = f THEN c ELSE fs[g]]

\* print(...): one line of the run log, <<what, plugin>>.
Logged(l, what, plugin_name) == Append(l, <<what, plugin_name>>)

\* main() is invoked (python main.py).  The operator may have edited or removed
\* the configuration file since the last run; the output directory is whatever
\* the last run, finished or not, left behind.
Invoke ==
    /\ pc \in {"idle", "done", "crashed"}
    /\ \E e \in BOOLEAN, c \in Configs :
          /\ configExists' = e
          /\ config' = c
    /\ pc' = "load_config"
    /\ plugins' = <<>>
    /\ k' = 1
    /\ i' = 1
    /\ log' = <<<<"INFO_LOADING", "">>>>
    /\ outcome' = NoOutcome
    /\ produced' = NoProduced
    /\ before' = [dirExists |-> dirExists, files |-> files]
    /\ UNCHANGED <<dirExists, files>>

\* LoadConfigMissing with the output directory cleared before the configuration
\* is looked for.
LoadConfigMissingAfterClear ==
    /\ pc = "load_config"
    /\ ~configExists
    /\ pc' = "crashed"
    /\ dirExists' = TRUE
    /\ files' = [f \in {} |-> <<>>]
    /\ log' = Append(log, <<"FileNotFoundError", "">>)
    /\ UNCHANGED <<configExists, config, plugins, k, i, outcome, produced,
                   before>>

\* load_active_plugins, lines 26-29: no configuration file, FileNotFoundError,
\* which nothing catches: main() ends there.
LoadConfigMissing ==
    /\ pc = "load_config"
    /\ ~configExists
    /\ pc' = "crashed"
    /\ log' = Logged(log, "FileNotFoundError", "")
    /\ UNCHANGED <<configExists, config, dirExists, files, plugins, k, i,
                   outcome, produced, before>>

\* load_active_plugins, lines 31-35: the configuration is read.
LoadConfig ==
    /\ pc = "load_config"
    /\ configExists
    /\ pc' = "load_plugins"
    /\ k' = 1
    /\ plugins' = <<>>
    /\ UNCHANGED <<configExists, config, dirExists, files, i, log, outcome,
                   produced, before>>

\* LoadPluginNotFound without the os.path.exists test: the import fails and
\* the error leaves load_active_plugins.
LoadPluginNotFoundRaises ==
    /\ pc = "load_plugins"
    /\ k <= Len(config)
    /\ outcome' = [outcome EXCEPT ![config[k]] = "missing"]
    /\ log' = Append(log, <<"Traceback", config[k]>>)
    /\ pc' = "crashed"
    /\ UNCHANGED <<configExists, config, dirExists, files, plugins, k, i,
                   produced, before>>

\* load_active_plugins, lines 37-43: no file for this identifier: a warning,
\* and the loop continues.
LoadPluginNotFound ==
    /\ pc = "load_plugins"
    /\ k <= Len(config)
    /\ log' = Logged(log, "WARNING_NOT_FOUND", config[k])
    /\ outcome' = [outcome EXCEPT ![config[k]] = "missing"]
    /\ k' = k + 1
    /\ UNCHANGED <<configExists, config, dirExists, files, pc, plugins, i,
                   produced, before>>

\* load_active_plugins, lines 45-50: the module is executed and appended.  The
\* module may or may not define get_output.
LoadPluginOk ==
    /\ pc = "load_plugins"
    /\ k <= Len(config)
    /\ \E has \in BOOLEAN :
          plugins' = Append(plugins, [name |-> config[k], get_output |-> has])
    /\ log' = Logged(log, "INFO_LOADED", config[k])
    /\ outcome' = [outcome EXCEPT ![config[k]] = "loaded"]
    /\ k' = k + 1
    /\ UNCHANGED <<configExists, config, dirExists, files, pc, i, produced, before>>

\* load_active_plugins, line 48: exec_module runs the plugin's top-level code,
\* which raises (an ImportError, a missing environment variable, exit()).
\* Nothing in load_active_plugins or main catches it.
LoadPluginRaises ==
    /\ pc = "load_plugins"
    /\ k <= Len(config)
    /\ outcome' = [outcome EXCEPT ![config[k]] = "load_raised"]
    /\ log' = Logged(log, "Traceback", config[k])
    /\ pc' = "crashed"
    /\ UNCHANGED <<configExists, config, dirExists, files, plugins, k, i,
                   produced, before>>

\* load_active_plugins, line 51: return plugins, active_plugin_names.
LoadDone ==
    /\ pc = "load_plugins"
    /\ k > Len(config)
    /\ pc' = "clear"
    /\ UNCHANGED <<configExists, config, dirExists, files, plugins, k, i, log,
                   outcome, produced, before>>

\* ClearOutputDir that only creates the directory and unlinks nothing.
ClearOutputDirKeepsFiles ==
    /\ pc = "clear"
    /\ dirExists' = TRUE
    /\ pc' = "run"
    /\ i' = 1
    /\ UNCHANGED <<configExists, config, files, plugins, k, log, outcome,
                   produced, before>>

\* main, lines 59-68: the output directory is created, or every file in it is
\* unlinked.  (main never creates a subdirectory there.)
ClearOutputDir ==
    /\ pc = "clear"
    /\ dirExists' = TRUE
    /\ files' = NoFiles
    /\ pc' = "run"
    /\ i' = 1
    /\ UNCHANGED <<configExists, config, plugins, k, log, outcome, produced,
                   before>>

\* main, lines 72 and 108-111: a module without get_output is skipped.
SkipNoGetOutput ==
    /\ pc = "run"
    /\ i <= Len(plugins)
    /\ ~plugins[i].get_output
    /\ log' = Logged(log, "WARNING_NO_GET_OUTPUT", plugins[i].name)
    /\ outcome' = [outcome EXCEPT ![plugins[i].name] = "no_get_output"]
    /\ i' = i + 1
    /\ UNCHANGED <<configExists, config, dirExists, files, pc, plugins, k,
                   produced, before>>

\* main, lines 72-78: get_output() of the plugin at position i is invoked.
CallGetOutput ==
    /\ pc = "run"
    /\ i <= Len(plugins)
    /\ plugins[i].get_output
    /\ log' = Logged(log, "RUNNING", plugins[i].name)
    /\ outcome' = [outcome EXCEPT ![plugins[i].name] = "called"]
    /\ pc' = "in_plugin"
    /\ UNCHANGED <<configExists, config, dirExists, files, plugins, k, i,
                   produced, before>>

\* main, lines 77-86 and 89-106: get_output() returned a dict; its output is
\* written to the plugin's file; the finally block logs the completion.
GetOutputReturns ==
    /\ pc = "in_plugin"
    /\ \E output \in OutputTexts :
          LET plugin_name == plugins[i].name
          IN  /\ files' = WriteFile(files, OutputFileName(plugin_name),
                                    PluginOutput(plugin_name, output))
              /\ produced' = [produced EXCEPT ![plugin_name] = output]
              /\ outcome' = [outcome EXCEPT ![plugin_name] = "returned"]
              /\ log' = Logged(log, "INFO_COMPLETED", plugin_name)
    /\ pc' = "run"
    /\ i' = i + 1
    /\ UNCHANGED <<configExists, config, dirExists, plugins, k, before>>

\* GetOutputRaises without the except clause: the exception leaves main().
GetOutputRaisesUncaught ==
    /\ pc = "in_plugin"
    /\ log' = Append(log, <<"INFO_COMPLETED", plugins[i].name>>)
    /\ outcome' = [outcome EXCEPT ![plugins[i].name] = "raised"]
    /\ pc' = "crashed"
    /\ UNCHANGED <<configExists, config, dirExists, files, plugins, k, i,
                   produced, before>>

\* main, lines 87-106: get_output() raised an Exception: it is caught and
\* logged with the plugin's name, nothing is written, the loop continues.
GetOutputRaises ==
    /\ pc = "in_plugin"
    /\ log' = Logged(Logged(log, "ERROR_FAILED", plugins[i].name),
                     "INFO_COMPLETED", plugins[i].name)
    /\ outcome' = [outcome EXCEPT ![plugins[i].name] = "raised"]
    /\ pc' = "run"
    /\ i' = i + 1
    /\ UNCHANGED <<configExists, config, dirExists, files, plugins, k,
                   produced, before>>

\* main, lines 87-106: get_output() called exit() (strava.py lines 110, 121,
\* 126; phone_tool.py line 86).  SystemExit is not an Exception: `except
\* Exception` lets it pass, the finally block logs, and main() ends.
GetOutputExits ==
    /\ pc = "in_plugin"
    /\ log' = Logged(log, "INFO_COMPLETED", plugins[i].name)
    /\ outcome' = [outcome EXCEPT ![plugins[i].name] = "exited"]
    /\ pc' = "crashed"
    /\ UNCHANGED <<configExists, config, dirExists, files, plugins, k, i,
                   produced, before>>

\* AggregateOpen one iteration early: the run loop ends before its last plugin.
AggregateOpenEarly ==
    /\ pc = "run"
    /\ i >= Len(plugins)
    /\ files' = [g \in DOMAIN files \cup {FULL_CONTEXT_FILE} |->
                    IF g = FULL_CONTEXT_FILE THEN <<>> ELSE files[g]]
    /\ pc' = "aggregate"
    /\ i' = 1
    /\ UNCHANGED <<configExists, config, dirExists, plugins, k, log, outcome,
                   produced, before>>

\* main, line 114: the aggregate file is opened for writing (created empty).
AggregateOpen ==
    /\ pc = "run"
    /\ i > Len(plugins)
    /\ files' = WriteFile(files, FULL_CONTEXT_FILE, <<>>)
    /\ pc' = "aggregate"
    /\ i' = 1
    /\ UNCHANGED <<configExists, config, dirExists, plugins, k, log, outcome,
                   produced, before>>

\* main, lines 115-119: the next configured plugin has an output file: its
\* content and a blank line are appended to the aggregate.
AggregateAppend ==
    /\ pc = "aggregate"
    /\ i <= Len(config)
    /\ OutputFileName(config[i]) \in DOMAIN files
    /\ files' = [files EXCEPT ![FULL_CONTEXT_FILE] =
                    @ \o files[OutputFileName(config[i])] \o <<"\n\n">>]
    /\ i' = i + 1
    /\ UNCHANGED <<configExists, config, dirExists, pc, plugins, k, log,
                   outcome, produced, before>>

\* main, lines 120-123: no output file for the next configured plugin: a debug
\* note, nothing is appended.
AggregateSkip ==
    /\ pc = "aggregate"
    /\ i <= Len(config)
    /\ OutputFileName(config[i]) \notin DOMAIN files
    /\ log' = Logged(log, "DEBUG_NO_OUTPUT_FILE", config[i])
    /\ i' = i + 1
    /\ UNCHANGED <<configExists, config, dirExists, files, pc, plugins, k,
                   outcome, produced, before>>

\* main, lines 125-127: the aggregate file is closed and main() returns.
AggregateClose ==
    /\ pc = "aggregate"
    /\ i > Len(config)
    /\ log' = Logged(log, "INFO_ALL_RUN", "")
    /\ pc' = "done"
    /\ UNCHANGED <<configExists, config, dirExists, files, plugins, k, i,
                   outcome, produced, before>>



(***************************************************************************)
(*                     PLUGIN PIPELINE: PROPERTIES                         *)
(***************************************************************************)

\* The plugins of the run loop that have finished: returned, raised or skipped.
Finished(plugin_name) ==
    outcome[plugin_name] \in {"returned", "raised", "no_get_output"}

\* main() ended by an error it did not catch only for one of these reasons.
FatalCause ==
    \/ ~configExists
    \/ \E p \in PluginNames : outcome[p] \in {"load_raised", "exited"}

RECURSIVE ArtifactsOfReturned(_)
\* The artifacts, each with its blank-line separator, of the plugins among
\* names (in that order) whose get_output() returned in this run.
ArtifactsOfReturned(names) ==
    IF names = <<>> THEN <<>>
    ELSE LET p == Head(names)
         IN  (IF outcome[p] = "returned"
              THEN <<"[[ ", p, " ]]", "\n">> \o produced[p] \o <<"\n\n">>
              ELSE <<>>)
             \o ArtifactsOfReturned(Tail(names))

RECURSIVE ExistingArtifacts(_, _)
\* The content of every existing per-plugin file among names, in that order,
\* each followed by the blank-line separator.
ExistingArtifacts(names, fs) ==
    IF names = <<>> THEN <<>>
    ELSE (IF <<Head(names), ".output.txt">> \in DOMAIN fs
          THEN fs[<<Head(names), ".output.txt">>] \o <<"\n\n">>
          ELSE <<>>)
         \o ExistingArtifacts(Tail(names), fs)

\* Whether the run printed this line.
InLog(what, plugin_name) ==
    \E n \in 1..Len(log) : log[n] = <<what, plugin_name>>

\* The plugins the log names with this line, in the order printed.
LoggedNames(what) ==
    LET hits == SelectSeq(log, LAMBDA e : e[1] = what)
    IN  [n \in 1..Len(hits) |-> hits[n][2]]

\* Whether s is a prefix of t.
IsPrefix(s, t) == Len(s) <= Len(t) /\ \A n \in 1..Len(s) : s[n] = t[n]

\* C1: when get_output() of some configured plugins raises an exception and
\* the others return, main() is not ended by it, and the finished run's
\* aggregate is exactly the artifacts of the plugins that returned, in
\* configured order, with nothing of a failing plugin; every failure is logged
\* with the plugin's name.
C1_PartialFailure ==
    /\ (pc = "crashed" => FatalCause)
    /\ (pc = "done" =>
          /\ FULL_CONTEXT_FILE \in DOMAIN files
          /\ files[FULL_CONTEXT_FILE] = ArtifactsOfReturned(config)
          /\ \A p \in PluginNames :
                outcome[p] = "raised" =>
                    /\ InLog("ERROR_FAILED", p)
                    /\ OutputFileName(p) \notin DOMAIN files
                    /\ \A n \in 1..Len(files[FULL_CONTEXT_FILE]) :
                          files[FULL_CONTEXT_FILE][n] # p)

\* C1 witness: [a, b, c] with b failing and a, c returning, run to the end.
C1_Witness ==
    /\ pc = "done"
    /\ config = <<"a", "b", "c">>
    /\ outcome["a"] = "returned"
    /\ outcome["b"] = "raised"
    /\ outcome["c"] = "returned"

\* C2 (as claimed): whenever the configuration file exists, no behaviour of a
\* plugin, while it is loaded or while it runs, ends main() before the
\* aggregate is written.
C2_NoPluginFailureIsFatal == pc = "crashed" => ~configExists

\* C3: after a completed run the output directory holds a per-plugin file
\* exactly for the plugins whose get_output() returned in that run, with the
\* content of that run, whatever earlier runs left; the aggregate holds nothing
\* of any other plugin.
C3_NoStaleArtifacts ==
    pc = "done" =>
        /\ DOMAIN files =
              {OutputFileName(p) : p \in {q \in PluginNames : outcome[q] = "returned"}}
              \cup {FULL_CONTEXT_FILE}
        /\ \A p \in PluginNames :
              outcome[p] = "returned" =>
                  files[OutputFileName(p)] = <<"[[ ", p, " ]]", "\n">> \o produced[p]
        /\ \A p \in PluginNames :
              outcome[p] # "returned" =>
                  \A n \in 1..Len(files[FULL_CONTEXT_FILE]) :
                      files[FULL_CONTEXT_FILE][n] # p

\* C3 witness: a completed run that found, when it started, the artifact of a
\* plugin no longer configured and the artifact of a plugin that failed now.
C3_Witness ==
    /\ pc = "done"
    /\ \E p, q \in PluginNames :
          /\ OutputFileName(p) \in DOMAIN before.files
          /\ \A n \in 1..Len(config) : config[n] # p
          /\ OutputFileName(q) \in DOMAIN before.files
          /\ outcome[q] = "raised"

\* C4: an identifier without a plugin file is skipped with a warning; the other
\* configured plugins are loaded in configured order and run in that order,
\* and the aggregation skips the missing plugin without raising.
C4_MissingPluginSkipped ==
    /\ (pc = "crashed" => FatalCause)
    /\ \A p \in PluginNames :
          outcome[p] = "missing" =>
              /\ InLog("WARNING_NOT_FOUND", p)
              /\ \A n \in 1..Len(plugins) : plugins[n].name # p
    /\ (pc \in {"clear", "run", "in_plugin", "aggregate", "done"} =>
          [n \in 1..Len(plugins) |-> plugins[n].name]
              = SelectSeq(config, LAMBDA p : outcome[p] # "missing"))
    /\ (pc = "done" =>
          /\ LoggedNames("RUNNING")
                = SelectSeq(config, LAMBDA p : outcome[p] \in {"returned", "raised"})
          /\ \A p \in PluginNames :
                outcome[p] = "missing" =>
                    /\ InLog("DEBUG_NO_OUTPUT_FILE", p)
                    /\ OutputFileName(p) \notin DOMAIN files)

\* C4 witness: a finished run whose first configured plugin has no file and
\* whose later plugins ran.
C4_Witness ==
    /\ pc = "done"
    /\ Len(config) = 3
    /\ outcome[config[1]] = "missing"
    /\ outcome[config[2]] = "returned"
    /\ outcome[config[3]] = "returned"

\* C5: each per-plugin file is the marker line naming the configured identifier
\* followed by the plugin's raw output, and the finished aggregate is the
\* concatenation, in configured order, of every existing per-plugin file, each
\* followed by a blank line, and nothing else.
C5_ArtifactAndAggregateFormat ==
    /\ (pc \in {"run", "in_plugin", "aggregate", "done"} =>
          \A p \in PluginNames :
              OutputFileName(p) \in DOMAIN files =>
                  files[OutputFileName(p)] = <<"[[ ", p, " ]]", "\n">> \o produced[p])
    /\ (pc = "done" =>
          files[FULL_CONTEXT_FILE] = ExistingArtifacts(config, files))

\* C5 witness: a finished run with two artifacts in the aggregate.
C5_Witness ==
    /\ pc = "done"
    /\ Len(config) >= 2
    /\ outcome[config[1]] = "returned"
    /\ outcome[config[2]] = "returned"
    /\ produced[config[1]] # produced[config[2]]

\* C6: plugins run one at a time in configured order: while get_output() of the
\* plugin at position i runs, every earlier plugin has finished and no later
\* one has been invoked; the aggregate file is written only after all have
\* finished.
C6_SequentialInOrder ==
    /\ Cardinality({p \in PluginNames : outcome[p] = "called"}) <= 1
    /\ (pc = "in_plugin" =>
          /\ outcome[plugins[i].name] = "called"
          /\ \A j \in 1..(i - 1) : Finished(plugins[j].name)
          /\ \A j \in (i + 1)..Len(plugins) : outcome[plugins[j].name] = "loaded")
    /\ (pc \in {"run", "in_plugin", "aggregate", "done"} =>
          /\ IsPrefix(LoggedNames("RUNNING"),
                      SelectSeq([n \in 1..Len(plugins) |-> plugins[n].name],
                                LAMBDA p : outcome[p] # "no_get_output"))
          /\ (FULL_CONTEXT_FILE \in DOMAIN files =>
                \A j \in 1..Len(plugins) : Finished(plugins[j].name)))

\* C6 witness: the third plugin is running after the first two have finished.
C6_Witness ==
    /\ pc = "in_plugin"
    /\ i = 3
    /\ outcome[plugins[1].name] = "raised"
    /\ outcome[plugins[2].name] = "returned"

\* C7: without a configuration file load_active_plugins raises before any
\* plugin is loaded or run, and the output directory, its per-plugin files and
\* the previous aggregate are as they were.
C7_MissingConfigIsFatal ==
    /\ (pc \in {"load_plugins", "clear", "run", "in_plugin", "aggregate", "done"}
          => configExists)
    /\ (pc = "crashed" /\ ~configExists =>
          /\ InLog("FileNotFoundError", "")
          /\ plugins = <<>>
          /\ outcome = NoOutcome
          /\ dirExists = before.dirExists
          /\ files = before.files)

\* C7 witness: the run ended on the missing configuration file, with an earlier
\* run's aggregate and artifact in the output directory.
C7_Witness ==
    /\ pc = "crashed"
    /\ ~configExists
    /\ FULL_CONTEXT_FILE \in DOMAIN files
    /\ files[FULL_CONTEXT_FILE] # <<>>

(***************************************************************************)
(*                          DIARY CONVERTER                                *)
(*                                                                         *)
(* A line is the sequence of its characters.  A document is the list of    *)
(* lines markdown_text.splitlines() yields.                                *)
(***************************************************************************)

\* Longest document, in lines.
MaxLines == 3

\* a yearless day header: `## Dec 30`
HeaderDec30 ==
    <<"#", "#", " ", "D", "e", "c", " ", "3", "0">>

\* a yearless day header early in the year: `## Jan 2`
HeaderJan2 ==
    <<"#", "#", " ", "J", "a", "n", " ", "2">>

\* a day header with its year: `## Feb 2, 2025`
HeaderFeb2Y2025 ==
    <<"#", "#", " ", "F", "e", "b", " ", "2", ",", " ", "2", "0", "2", "5">>

\* a day header with an earlier year: `## Jan 1, 2024`
HeaderJan1Y2024 ==
    <<"#", "#", " ", "J", "a", "n", " ", "1", ",", " ", "2", "0", "2", "4">>

\* a day header that is no date: `## someday`
HeaderSomeday ==
    <<"#", "#", " ", "s", "o", "m", "e", "d", "a", "y">>

\* an entry started by a bullet: `- 9:05 AM up`
EntryBullet ==
    <<"-", " ", "9", ":", "0", "5", " ", "A", "M", " ", "u", "p">>

\* an entry started by a 4-space indent: `    9:05 pm up`
EntryIndent ==
    <<" ", " ", " ", " ", "9", ":", "0", "5", " ", "p", "m", " ", "u", "p">>

\* a day header with weekday and year, on a leap day: `## Thu Feb 29, 2024`
HeaderThuFeb29Y2024 ==
    <<"#", "#", " ", "T", "h", "u", " ", "F", "e", "b", " ", "2", "9", ",", " ", "2", "0", "2", "4">>

\* a day header with weekday and year, on new year's day: `## Wed Jan 1, 2025`
HeaderWedJan1Y2025 ==
    <<"#", "#", " ", "W", "e", "d", " ", "J", "a", "n", " ", "1", ",", " ", "2", "0", "2", "5">>

\* a yearless day header in February: `## Feb 14`
HeaderFeb14 ==
    <<"#", "#", " ", "F", "e", "b", " ", "1", "4">>

\* a line of two hashes with no blank after them: `##Feb 2`
HeaderNoSpace ==
    <<"#", "#", "F", "e", "b", " ", "2">>

\* an entry started by a bullet, its time bold-wrapped: `- **7:15 am** up`
EntryBold ==
    <<"-", " ", "*", "*", "7", ":", "1", "5", " ", "a", "m", "*", "*", " ", "u", "p">>

\* a bullet and a time whose meridiem is in mixed case: `- 9:05 Am up`
EntryMixedCase ==
    <<"-", " ", "9", ":", "0", "5", " ", "A", "m", " ", "u", "p">>

\* a line of entry text, with blanks around it: `  more `
TextMore ==
    <<" ", " ", "m", "o", "r", "e", " ">>

\* an empty line: ``
BlankLine ==
    <<>>

\* The lines documents are made of.
DiaryLines ==
    {HeaderDec30, HeaderJan2, HeaderFeb2Y2025, HeaderJan1Y2024, HeaderSomeday,
     HeaderThuFeb29Y2024, HeaderWedJan1Y2025, HeaderFeb14, HeaderNoSpace,
     EntryBullet, EntryIndent, EntryBold, EntryMixedCase, TextMore, BlankLine}

\* The documents parse() is run on.
DiaryDocuments == SeqsUpTo(DiaryLines, MaxLines)

\* str.strip(), re \s: the whitespace characters.
Whitespace == {" ", "\t", "\n"}

\* re \d.
Digits == {"0", "1", "2", "3", "4", "5", "6", "7", "8", "9"}

RECURSIVE LStrip(_)
\* str.lstrip()
LStrip(s) == IF s # <<>> /\ Head(s) \in Whitespace THEN LStrip(Tail(s)) ELSE s

RECURSIVE RStrip(_)
\* str.rstrip()
RStrip(s) ==
    IF s # <<>> /\ s[Len(s)] \in Whitespace
    THEN RStrip(SubSeq(s, 1, Len(s) - 1))
    ELSE s

\* str.strip()
Strip(s) == RStrip(LStrip(s))

RECURSIVE LStripHash(_)
\* str.lstrip("#")
LStripHash(s) == IF s # <<>> /\ Head(s) = "#" THEN LStripHash(Tail(s)) ELSE s

\* str.startswith(prefix)
StartsWith(s, prefix) ==
    Len(s) >= Len(prefix) /\ SubSeq(s, 1, Len(prefix)) = prefix

\* s[n:] with n counted from 0, as a Python slice: empty beyond the end.
SliceFrom(s, n) == IF n >= Len(s) THEN <<>> ELSE SubSeq(s, n + 1, Len(s))

\* str.upper() on one character of a captured time: the letters of am and pm.
UpperChar(c) ==
    CASE c = "a" -> "A"
      [] c = "p" -> "P"
      [] c = "m" -> "M"
      [] OTHER -> c

\* str.upper()
Upper(s) == [n \in 1..Len(s) |-> UpperChar(s[n])]

RECURSIVE Join(_)
\* "\n".join(lines)
Join(ls) ==
    IF ls = <<>> THEN <<>>
    ELSE IF Len(ls) = 1 THEN ls[1]
    ELSE ls[1] \o <<"\n">> \o Join(Tail(ls))

RECURSIVE SkipSpaces(_, _)
\* re \s* from position p (1-based): the first position not holding whitespace.
SkipSpaces(s, p) ==
    IF p <= Len(s) /\ s[p] \in Whitespace THEN SkipSpaces(s, p + 1) ELSE p

\* Whether s holds the characters of lit from position p on.
At(s, p, lit) ==
    /\ p >= 1
    /\ p + Len(lit) - 1 <= Len(s)
    /\ SubSeq(s, p, p + Len(lit) - 1) = lit

\* Whether s holds a digit at position p.
DigitAt(s, p) == p >= 1 /\ p <= Len(s) /\ s[p] \in Digits

\* time_pattern.match(line):
\*   ^(?:-\s*| {4})(?:\*\*)?(\d{1,2}:\d{2}\s*(?:AM|PM|am|pm))(?:\*\*)?
\* matched: whether it matches; start, stop: first and last position (1-based)
\* of group 1; end: m.end(), the number of characters matched.
TimeMatch(line) ==
    LET nomatch == [matched |-> FALSE, start |-> 0, stop |-> 0, end |-> 0]
        \* (?:-\s*| {4})
        p1 == IF At(line, 1, <<"-">>) THEN SkipSpaces(line, 2)
              ELSE IF At(line, 1, <<" ", " ", " ", " ">>) THEN 5
              ELSE 0
        \* (?:\*\*)?
        p2 == IF At(line, p1, <<"*", "*">>) THEN p1 + 2 ELSE p1
        \* \d{1,2}:
        p3 == IF DigitAt(line, p2) /\ DigitAt(line, p2 + 1)
                 /\ At(line, p2 + 2, <<":">>) THEN p2 + 3
              ELSE IF DigitAt(line, p2) /\ At(line, p2 + 1, <<":">>) THEN p2 + 2
              ELSE 0
        \* \d{2}\s*
        p4 == IF p3 # 0 /\ DigitAt(line, p3) /\ DigitAt(line, p3 + 1)
              THEN SkipSpaces(line, p3 + 2)
              ELSE 0
        \* (?:AM|PM|am|pm)
        p5 == IF p4 # 0 /\ (\/ At(line, p4, <<"A", "M">>)
                            \/ At(line, p4, <<"P", "M">>)
                            \/ At(line, p4, <<"a", "m">>)
                            \/ At(line, p4, <<"p", "m">>))
              THEN p4 + 2
              ELSE 0
        \* (?:\*\*)?
        p6 == IF At(line, p5, <<"*", "*">>) THEN p5 + 2 ELSE p5
    IN  IF p1 = 0 \/ p5 = 0 THEN nomatch
        ELSE [matched |-> TRUE, start |-> p2, stop |-> p5 - 1, end |-> p6 - 1]


\* A datetime's date, and None.
Date(y, m, d) == [year |-> y, month |-> m, day |-> d]
None == Date(0, 0, 0)

\* calendar: leap years and the length of a month.
IsLeap(y) == (y % 4 = 0) /\ ((y % 100 # 0) \/ (y % 400 = 0))
DaysInMonth(y, m) ==
    IF m = 2 THEN (IF IsLeap(y) THEN 29 ELSE 28)
    ELSE IF m \in {4, 6, 9, 11} THEN 30
    ELSE 31

\* Whether year-month-day is a date of the calendar (datetime(...) and
\* datetime.replace raise ValueError otherwise).
ValidDate(y, m, d) == y >= 1 /\ m \in 1..12 /\ d >= 1 /\ d <= DaysInMonth(y, m)

RECURSIVE DaysBeforeMonth(_, _)
\* The days of year y before month m.
DaysBeforeMonth(y, m) ==
    IF m <= 1 THEN 0 ELSE DaysBeforeMonth(y, m - 1) + DaysInMonth(y, m - 1)

\* date.toordinal(): days since 0001-01-01, that day being 1.
ToOrdinal(dt) ==
    LET y == dt.year - 1
    IN  y * 365 + (y \div 4) - (y \div 100) + (y \div 400)
        + DaysBeforeMonth(dt.year, dt.month) + dt.day

\* a.date() <= b.date()
DateLE(a, b) ==
    \/ a.year < b.year
    \/ a.year = b.year /\ a.month < b.month
    \/ a.year = b.year /\ a.month = b.month /\ a.day <= b.day

\* a.date() < b.date()
DateLT(a, b) == DateLE(a, b) /\ a # b

RECURSIVE PlusDays(_, _)
\* dt + timedelta(days=n), n >= 0: the days left in the month are used up,
\* then the count goes on from the first of the next month.
PlusDays(dt, n) ==
    LET left == DaysInMonth(dt.year, dt.month) - dt.day
    IN  IF n <= left THEN Date(dt.year, dt.month, dt.day + n)
        ELSE IF dt.month = 12
        THEN PlusDays(Date(dt.year + 1, 1, 1), n - left - 1)
        ELSE PlusDays(Date(dt.year, dt.month + 1, 1), n - left - 1)

\* The date expressions of the day headers above, as the date parsers read
\* them: the fields the text gives (year 0: none), and the strptime format,
\* among the two parse_day_header tries, that accepts the text.
DateExpressions ==
    {[text |-> SubSeq(HeaderDec30, 4, Len(HeaderDec30)),
      year |-> 0, month |-> 12, day |-> 30, strptime |-> "%b %d"],
     [text |-> SubSeq(HeaderJan2, 4, Len(HeaderJan2)),
      year |-> 0, month |-> 1, day |-> 2, strptime |-> "%b %d"],
     [text |-> SubSeq(HeaderFeb2Y2025, 4, Len(HeaderFeb2Y2025)),
      year |-> 2025, month |-> 2, day |-> 2, strptime |-> "none"],
     [text |-> SubSeq(HeaderJan1Y2024, 4, Len(HeaderJan1Y2024)),
      year |-> 2024, month |-> 1, day |-> 1, strptime |-> "none"],
     [text |-> SubSeq(HeaderThuFeb29Y2024, 4, Len(HeaderThuFeb29Y2024)),
      year |-> 2024, month |-> 2, day |-> 29, strptime |-> "%a %b %d, %Y"],
     [text |-> SubSeq(HeaderWedJan1Y2025, 4, Len(HeaderWedJan1Y2025)),
      year |-> 2025, month |-> 1, day |-> 1, strptime |-> "%a %b %d, %Y"],
     [text |-> SubSeq(HeaderFeb14, 4, Len(HeaderFeb14)),
      year |-> 0, month |-> 2, day |-> 14, strptime |-> "%b %d"]}

\* Whether the date parsers know the text at all.
IsDateExpression(text) == \E e \in DateExpressions : e.text = text

\* The fields of a known date expression.
FieldsOf(text) == CHOOSE e \in DateExpressions : e.text = text

\* DateutilParse with the default date ignored: a missing year is 2025.
DateutilParseFixedYear(text, default_date) ==
    IF ~IsDateExpression(text) THEN [year |-> 0, month |-> 0, day |-> 0]
    ELSE LET e == FieldsOf(text)
             y == IF e.year = 0 THEN 2025 ELSE e.year
         IN  IF ValidDate(y, e.month, e.day)
             THEN [year |-> y, month |-> e.month, day |-> e.day]
             ELSE [year |-> 0, month |-> 0, day |-> 0]

\* dateutil.parser.parse(text, default=default_date): the fields the text
\* gives replace those of the default; None stands for the exception raised
\* for a text that is no date or for a day the month does not have.
DateutilParse(text, default_date) ==
    IF ~IsDateExpression(text) THEN None
    ELSE LET e == FieldsOf(text)
             y == IF e.year = 0 THEN default_date.year ELSE e.year
         IN  IF ValidDate(y, e.month, e.day) THEN Date(y, e.month, e.day)
             ELSE None

\* datetime.strptime(text, "%a %b %d, %Y"), and on failure
\* datetime.strptime(text, "%b %d").replace(year=default_year); a text without
\* year is read in 1900.  None stands for the exception.
StrptimeParse(text, default_year) ==
    IF ~IsDateExpression(text) THEN None
    ELSE LET e == FieldsOf(text)
         IN  IF e.strptime = "%a %b %d, %Y" /\ ValidDate(e.year, e.month, e.day)
             THEN Date(e.year, e.month, e.day)
             ELSE IF e.strptime = "%b %d" /\ ValidDate(1900, e.month, e.day)
                     /\ ValidDate(default_year, e.month, e.day)
             THEN Date(default_year, e.month, e.day)
             ELSE None

\* The year parse_day_header assumes for the first day of a document.
DefaultYear == 2025

\* parse_day_header without lines 52-56: the parsed date is returned as it is.
parse_day_header_no_rollover(header_line, last_date, have_dateutil) ==
    LET original_header == Strip(LStripHash(header_line))
        default_year == IF last_date # None THEN last_date.year ELSE DefaultYear
        default_date == Date(default_year, 1, 1)
        parsed == IF have_dateutil
                  THEN DateutilParse(original_header, default_date)
                  ELSE StrptimeParse(original_header, default_year)
    IN  IF original_header = <<>>
        THEN [parsed |-> None, original_header |-> <<>>]
        ELSE [parsed |-> parsed, original_header |-> original_header]

\* DiaryConverter.parse_day_header(header_line, last_date): the pair
\* (parsed, original_header).  have_dateutil: whether dateutil was importable.
parse_day_header(header_line, last_date, have_dateutil) ==
    LET original_header == Strip(LStripHash(header_line))
        default_year == IF last_date # None THEN last_date.year ELSE DefaultYear
        default_date == Date(default_year, 1, 1)
        parsed == IF have_dateutil
                  THEN DateutilParse(original_header, default_date)
                  ELSE StrptimeParse(original_header, default_year)
    IN  IF original_header = <<>>
        THEN [parsed |-> None, original_header |-> <<>>]
        ELSE IF parsed = None
        THEN [parsed |-> None, original_header |-> original_header]
        ELSE IF last_date # None /\ DateLE(parsed, last_date)
        THEN [parsed |-> IF ValidDate(parsed.year + 1, parsed.month, parsed.day)
                         THEN Date(parsed.year + 1, parsed.month, parsed.day)
                         ELSE PlusDays(parsed, 365),
              original_header |-> original_header]
        ELSE [parsed |-> parsed, original_header |-> original_header]


VARIABLES
    have_dateutil,       \* whether `from dateutil import parser` succeeded
    lines,               \* parse: self.markdown_text.splitlines()
    pos,                 \* parse: the position of the loop in lines
    days,                \* parse: days
    current_day_info,    \* parse: current_day_info, NoDay for None
    entries,             \* parse: entries
    current_entry_time,  \* parse: current_entry_time, NoTime for None
    current_entry_lines, \* parse: current_entry_lines
    last_date,           \* parse: last_date
    dpc,                 \* where the conversion is
    xml,                 \* build_xml: the day nodes under <diary>
    parsed_headers,      \* the positions of the header lines that parsed
    conversion,          \* which call of convert() on this text is running
    first_xml            \* what the first call of convert() produced

dvars == <<have_dateutil, lines, pos, days, current_day_info, entries,
           current_entry_time, current_entry_lines, last_date, dpc, xml,
           parsed_headers, conversion, first_xml>>


\* current_day_info = None
NoDay == [parsed |-> None, original_header |-> <<>>]

\* current_entry_time = None
NoTime == <<>>

\* parse, lines 60-70: the locals before the loop.
ParseLocals ==
    /\ pos = 1
    /\ days = <<>>
    /\ current_day_info = NoDay
    /\ entries = <<>>
    /\ current_entry_time = NoTime
    /\ current_entry_lines = <<>>
    /\ last_date = None
    /\ xml = <<>>
    /\ parsed_headers = <<>>
    /\ conversion = 1
    /\ first_xml = <<>>

\* DiaryConverter(markdown_text).convert() is entered on some document.
DiaryInit ==
    /\ have_dateutil \in BOOLEAN
    /\ lines \in DiaryDocuments
    /\ dpc = "parsing"
    /\ ParseLocals

\* No conversion is running.
DiaryIdle ==
    /\ have_dateutil = TRUE
    /\ lines = <<>>
    /\ dpc = "off"
    /\ ParseLocals

\* stripped.startswith("## ")
IsDayHeader(line) == StartsWith(Strip(line), <<"#", "#", " ">>)

\* parse, lines 73-75: a line that is blank once stripped is skipped.
SkipBlank ==
    /\ dpc = "parsing"
    /\ pos <= Len(lines)
    /\ Strip(lines[pos]) = <<>>
    /\ pos' = pos + 1
    /\ UNCHANGED <<have_dateutil, lines, days, current_day_info, entries,
                   current_entry_time, current_entry_lines, last_date, dpc,
                   xml, parsed_headers, conversion, first_xml>>

\* DayHeader with lines 49-50 left out: the date parser's exception, for a
\* header that is no date, leaves parse().
DayHeaderRaises ==
    /\ dpc = "parsing"
    /\ pos <= Len(lines)
    /\ Strip(lines[pos]) # <<>>
    /\ StartsWith(Strip(lines[pos]), <<"#", "#", " ">>)
    /\ LET stripped == Strip(lines[pos])
           closed == IF current_entry_time # NoTime
                     THEN Append(entries,
                                 [time |-> current_entry_time,
                                  text |-> Strip(Join(current_entry_lines))])
                     ELSE entries
           header == parse_day_header(stripped, last_date, have_dateutil)
       IN  /\ current_entry_time' = NoTime
           /\ current_entry_lines' = IF current_entry_time # NoTime THEN <<>>
                                     ELSE current_entry_lines
           /\ IF current_day_info # NoDay
              THEN /\ days' = Append(days, [info |-> current_day_info,
                                            entries |-> closed])
                   /\ entries' = <<>>
              ELSE /\ days' = days
                   /\ entries' = closed
           /\ IF header.parsed # None
              THEN /\ current_day_info' = header
                   /\ last_date' = header.parsed
                   /\ parsed_headers' = Append(parsed_headers, pos)
                   /\ pos' = pos + 1
                   /\ dpc' = dpc
              ELSE /\ dpc' = "raised"
                   /\ UNCHANGED <<current_day_info, last_date, parsed_headers,
                                  pos>>
    /\ UNCHANGED <<have_dateutil, lines, xml, conversion, first_xml>>

\* parse, lines 77-90: a day header.  The pending entry is closed (its text
\* stripped), the current day, if any, is appended to days, and the header is
\* parsed; only a header that parses replaces the current day.
DayHeader ==
    /\ dpc = "parsing"
    /\ pos <= Len(lines)
    /\ Strip(lines[pos]) # <<>>
    /\ IsDayHeader(lines[pos])
    /\ LET stripped == Strip(lines[pos])
           closed == IF current_entry_time # NoTime
                     THEN Append(entries,
                                 [time |-> current_entry_time,
                                  text |-> Strip(Join(current_entry_lines))])
                     ELSE entries
           header == parse_day_header(stripped, last_date, have_dateutil)
       IN  /\ current_entry_time' = IF current_entry_time # NoTime THEN NoTime
                                    ELSE current_entry_time
           /\ current_entry_lines' = IF current_entry_time # NoTime THEN <<>>
                                     ELSE current_entry_lines
           /\ IF current_day_info # NoDay
              THEN /\ days' = Append(days, [info |-> current_day_info,
                                            entries |-> closed])
                   /\ entries' = <<>>
              ELSE /\ days' = days
                   /\ entries' = closed
           /\ IF header.parsed # None
              THEN /\ current_day_info' = header
                   /\ last_date' = header.parsed
                   /\ parsed_headers' = Append(parsed_headers, pos)
              ELSE UNCHANGED <<current_day_info, last_date, parsed_headers>>
    /\ pos' = pos + 1
    /\ UNCHANGED <<have_dateutil, lines, dpc, xml, conversion, first_xml>>

\* parse, lines 92-99: a line the time pattern matches starts an entry; the
\* pending entry is closed first.
EntryStart ==
    /\ dpc = "parsing"
    /\ pos <= Len(lines)
    /\ Strip(lines[pos]) # <<>>
    /\ ~IsDayHeader(lines[pos])
    /\ TimeMatch(lines[pos]).matched
    /\ LET line == lines[pos]
           stripped == Strip(line)
           m == TimeMatch(line)
           remainder == Strip(SliceFrom(stripped, m.end))
       IN  /\ entries' = IF current_entry_time # NoTime
                         THEN Append(entries,
                                     [time |-> current_entry_time,
                                      text |-> Join(current_entry_lines)])
                         ELSE entries
           /\ current_entry_time' = Upper(SubSeq(line, m.start, m.stop))
           /\ current_entry_lines' = IF remainder # <<>> THEN <<remainder>>
                                     ELSE <<>>
    /\ pos' = pos + 1
    /\ UNCHANGED <<have_dateutil, lines, days, current_day_info, last_date,
                   dpc, xml, parsed_headers, conversion, first_xml>>

\* parse, lines 100-101: any other line is appended to the pending lines.
AppendLine ==
    /\ dpc = "parsing"
    /\ pos <= Len(lines)
    /\ Strip(lines[pos]) # <<>>
    /\ ~IsDayHeader(lines[pos])
    /\ ~TimeMatch(lines[pos]).matched
    /\ current_entry_lines' = Append(current_entry_lines, lines[pos])
    /\ pos' = pos + 1
    /\ UNCHANGED <<have_dateutil, lines, days, current_day_info, entries,
                   current_entry_time, last_date, dpc, xml, parsed_headers,
                   conversion, first_xml>>

\* FinishParse without lines 103-105: the pending entry is not closed.
FinishParseNoFlush ==
    /\ dpc = "parsing"
    /\ pos > Len(lines)
    /\ days' = IF current_day_info # NoDay
               THEN Append(days, [info |-> current_day_info,
                                  entries |-> entries])
               ELSE days
    /\ dpc' = "parsed"
    /\ UNCHANGED <<have_dateutil, lines, pos, current_day_info, entries,
                   current_entry_time, current_entry_lines, last_date, xml,
                   parsed_headers, conversion, first_xml>>

\* parse, lines 103-108: after the last line the pending entry is closed and
\* the current day, if any, is appended; days is returned.
FinishParse ==
    /\ dpc = "parsing"
    /\ pos > Len(lines)
    /\ LET closed == IF current_entry_time # NoTime
                     THEN Append(entries,
                                 [time |-> current_entry_time,
                                  text |-> Join(current_entry_lines)])
                     ELSE entries
       IN  /\ entries' = closed
           /\ days' = IF current_day_info # NoDay
                      THEN Append(days, [info |-> current_day_info,
                                         entries |-> closed])
                      ELSE days
    /\ dpc' = "parsed"
    /\ UNCHANGED <<have_dateutil, lines, pos, current_day_info,
                   current_entry_time, current_entry_lines, last_date, xml,
                   parsed_headers, conversion, first_xml>>

\* day_date.strftime("%A"): Monday is 0 in date.weekday().
WeekdayName(dt) ==
    <<"Monday", "Tuesday", "Wednesday", "Thursday", "Friday", "Saturday",
      "Sunday">>[((ToOrdinal(dt) + 6) % 7) + 1]

\* build_xml(days): one <day> per record, in order, with its <entry> nodes.
\* The date attribute is "%Y-%m-%d", kept as its three numbers.
build_xml(ds) ==
    [n \in 1..Len(ds) |->
        [header |-> ds[n].info.original_header,
         date |-> <<ds[n].info.parsed.year, ds[n].info.parsed.month,
                    ds[n].info.parsed.day>>,
         weekday |-> WeekdayName(ds[n].info.parsed),
         entries |-> [e \in 1..Len(ds[n].entries) |->
                         [time |-> ds[n].entries[e].time,
                          text |-> ds[n].entries[e].text]]]]

\* convert, lines 153-154: the tree is built from the parsed days.
BuildXml ==
    /\ dpc = "parsed"
    /\ xml' = build_xml(days)
    /\ dpc' = "built"
    /\ UNCHANGED <<have_dateutil, lines, pos, days, current_day_info, entries,
                   current_entry_time, current_entry_lines, last_date,
                   parsed_headers, conversion, first_xml>>

\* ConvertAgain with last_date kept on the converter between the calls.
ConvertAgainKeepsLastDate ==
    /\ dpc = "built"
    /\ conversion = 1
    /\ first_xml' = xml
    /\ conversion' = 2
    /\ pos' = 1
    /\ days' = <<>>
    /\ current_day_info' = NoDay
    /\ entries' = <<>>
    /\ current_entry_time' = NoTime
    /\ current_entry_lines' = <<>>
    /\ xml' = <<>>
    /\ parsed_headers' = <<>>
    /\ dpc' = "parsing"
    /\ UNCHANGED <<have_dateutil, lines, last_date>>

\* convert() is called a second time on the same text, on this converter or
\* on another DiaryConverter made from the same text: a converter holds
\* markdown_text only (lines 29-30), and parse, lines 60-70, starts from its
\* own fresh locals.
ConvertAgain ==
    /\ dpc = "built"
    /\ conversion = 1
    /\ first_xml' = xml
    /\ conversion' = 2
    /\ pos' = 1
    /\ days' = <<>>
    /\ current_day_info' = NoDay
    /\ entries' = <<>>
    /\ current_entry_time' = NoTime
    /\ current_entry_lines' = <<>>
    /\ last_date' = None
    /\ xml' = <<>>
    /\ parsed_headers' = <<>>
    /\ dpc' = "parsing"
    /\ UNCHANGED <<have_dateutil, lines>>

(***************************************************************************)
(*                     DIARY CONVERTER: PROPERTIES                         *)
(***************************************************************************)

\* A line that starts an entry: a bullet or a 4-space indent followed by a
\* time stamp.
IsEntryStart(line) ==
    Strip(line) # <<>> /\ ~IsDayHeader(line) /\ TimeMatch(line).matched

\* The number of lines of the document that start an entry.
EntryStartCount == Cardinality({n \in 1..Len(lines) : IsEntryStart(lines[n])})

RECURSIVE TotalEntries(_)
\* The number of entries over all the day records.
TotalEntries(ds) ==
    IF ds = <<>> THEN 0 ELSE Len(Head(ds).entries) + TotalEntries(Tail(ds))

\* The conversion has returned from parse().
Parsed == dpc \in {"parsed", "built"}

C9_OneDayPerParsedHeader ==
    dpc = "built" =>
        /\ Len(days) = Len(parsed_headers)
        /\ Len(xml) = Len(parsed_headers)
        /\ \A n \in 1..Len(days) :
              n <= Len(parsed_headers) =>
                  /\ days[n].info.original_header
                        = Strip(LStripHash(Strip(lines[parsed_headers[n]])))
                  /\ xml[n].header = days[n].info.original_header

\* C10 (as claimed): in the days parse() returns, each day's date is strictly
\* after that of the day before it.
C10_DatesStrictlyIncrease ==
    Parsed =>
        \A n \in 2..Len(days) :
            DateLT(days[n - 1].info.parsed, days[n].info.parsed)

\* The header line at position p, as parse_day_header keeps it.
HeaderText(p) == Strip(LStripHash(Strip(lines[p])))

\* The loop of parse() has just handled line pos - 1, a day header that parsed.
JustParsedHeader ==
    /\ dpc = "parsing"
    /\ pos > 1
    /\ parsed_headers # <<>>
    /\ parsed_headers[Len(parsed_headers)] = pos - 1

\* The date of the day before the one just opened (None: there is none): the
\* day the header closed, now the last of days.
PrecedingDate == IF days = <<>> THEN None ELSE days[Len(days)].info.parsed

\* What the date parser made of the header just handled, before any rollover.
ParsedDate ==
    LET year == IF PrecedingDate # None THEN PrecedingDate.year ELSE DefaultYear
    IN  IF have_dateutil
        THEN DateutilParse(HeaderText(pos - 1), Date(year, 1, 1))
        ELSE StrptimeParse(HeaderText(pos - 1), year)

\* C11: when the date parsed from a header is not strictly later than the
\* preceding day's date, the day is dated the same month and day one year
\* later, or 365 days after the parsed date when the next year has no such
\* day; when it is strictly later the day is dated as parsed.  A yearless
\* "Jan 2" after "Dec 30" is dated in the following calendar year.
C11_YearRollover ==
    JustParsedHeader =>
        /\ IF PrecedingDate # None
              /\ ToOrdinal(ParsedDate) <= ToOrdinal(PrecedingDate)
           THEN IF ValidDate(ParsedDate.year + 1, ParsedDate.month,
                             ParsedDate.day)
                THEN last_date = Date(ParsedDate.year + 1, ParsedDate.month,
                                      ParsedDate.day)
                ELSE ToOrdinal(last_date) = ToOrdinal(ParsedDate) + 365
           ELSE last_date = ParsedDate
        /\ (/\ lines[pos - 1] = HeaderJan2
            /\ days # <<>>
            /\ days[Len(days)].info.original_header
                  = SubSeq(HeaderDec30, 4, Len(HeaderDec30))
            => last_date.year = PrecedingDate.year + 1)

\* C11 witness: "Dec 30", then a leap day of the year before, then "Jan 2":
\* the leap day is moved 365 days on, to Feb 28, and "Jan 2" one year on.
C11_Witness ==
    /\ Parsed
    /\ lines = <<HeaderDec30, HeaderThuFeb29Y2024, HeaderJan2>>
    /\ Len(days) = 3
    /\ days[1].info.parsed = Date(2025, 12, 30)
    /\ days[2].info.parsed = Date(2025, 2, 28)
    /\ days[3].info.parsed = Date(2026, 1, 2)

\* The loop of parse() has just handled line pos - 1.
JustHandled(p) == dpc = "parsing" /\ pos > 1 /\ p = pos - 1

\* The text that follows the time expression on an entry-start line, trimmed.
TrailingText(line) == Strip(SliceFrom(line, TimeMatch(line).end))

\* C12 (as claimed): once an entry-start line is handled, with a bullet or a
\* 4-space indent, its time bold-wrapped or not, the body of the entry begins
\* with exactly the text that follows the time expression on that line,
\* trimmed, or is empty when nothing follows.
C12_BodyBeginsWithTrailingText ==
    \A p \in 1..Len(lines) :
        JustHandled(p) /\ IsEntryStart(lines[p]) =>
            current_entry_lines = IF TrailingText(lines[p]) # <<>>
                                  THEN <<TrailingText(lines[p])>>
                                  ELSE <<>>

\* The lines below line p that start an entry.
EntryStartsBelow(p) == {n \in (p + 1)..Len(lines) : IsEntryStart(lines[n])}

\* C13 (as claimed): no entry written above every day header that parsed is in
\* the days parse() returns: the returned entries are no more than the
\* entry-start lines below the first such header.
C13_NoEntryFromAboveTheFirstDay ==
    Parsed /\ parsed_headers # <<>> =>
        TotalEntries(days) <= Cardinality(EntryStartsBelow(parsed_headers[1]))

RECURSIVE FlatEntries(_)
\* The entries of all the day records, in order.
FlatEntries(ds) ==
    IF ds = <<>> THEN <<>> ELSE Head(ds).entries \o FlatEntries(Tail(ds))

RECURSIVE EntryLinesFrom(_)
\* The positions, in order from p on, of the lines that start an entry.
EntryLinesFrom(p) ==
    IF p > Len(lines) THEN <<>>
    ELSE IF IsEntryStart(lines[p]) THEN <<p>> \o EntryLinesFrom(p + 1)
    ELSE EntryLinesFrom(p + 1)

\* The time label an entry-start line gives its entry.
TimeLabel(line) ==
    Upper(SubSeq(line, TimeMatch(line).start, TimeMatch(line).stop))

\* The header lines of the document that did not parse.
UnparsedHeaders ==
    {p \in 1..Len(lines) :
        /\ Strip(lines[p]) # <<>>
        /\ IsDayHeader(lines[p])
        /\ \A n \in 1..Len(parsed_headers) : parsed_headers[n] # p}

\* Every header that parsed below line p has its day record, in order.
LaterHeadersPresent(p) ==
    LET later == SelectSeq(parsed_headers, LAMBDA q : q > p)
    IN  /\ Len(days) >= Len(later)
        /\ \E f \in [1..Len(later) -> 1..Len(days)] :
              /\ \A a, b \in 1..Len(later) : a < b => f[a] < f[b]
              /\ \A a \in 1..Len(later) :
                    days[f[a]].info.original_header = HeaderText(later[a])

\* Every entry started below line p is among the returned entries, in order:
\* they are the last of them.
LaterEntriesPresent(p) ==
    LET later == EntryLinesFrom(p + 1)
        flat == FlatEntries(days)
        skip == Len(flat) - Len(later)
    IN  /\ skip >= 0
        /\ \A a \in 1..Len(later) :
              flat[skip + a].time = TimeLabel(lines[later[a]])

JustParsedYearless ==
    JustParsedHeader /\ FieldsOf(HeaderText(pos - 1)).year = 0

\* C16 (as claimed): a header without year is dated in the year of the day
\* before it, or in 2025 when it opens the first day.
C16_YearOfPrecedingDay ==
    JustParsedYearless =>
        last_date.year = IF PrecedingDate # None THEN PrecedingDate.year
                         ELSE 2025

\* C16 (amended): a header without year is read in the year of the day before
\* it, or in 2025 when it opens the first day; it is dated in that year when
\* the date so read is strictly later than the day before (or there is none),
\* and in the year after otherwise.
C16_DefaultYearThenRollover ==
    JustParsedYearless =>
        LET e == FieldsOf(HeaderText(pos - 1))
            year == IF PrecedingDate # None THEN PrecedingDate.year ELSE 2025
        IN  IF PrecedingDate = None
            THEN last_date = Date(2025, e.month, e.day)
            ELSE IF ToOrdinal(Date(year, e.month, e.day))
                        > ToOrdinal(PrecedingDate)
            THEN last_date = Date(year, e.month, e.day)
            ELSE last_date.year = year + 1

\* C16 witness: "Feb 14" right after a day dated 2025-01-01 is 2025-02-14.
C16_Witness ==
    /\ JustParsedYearless
    /\ lines[pos - 1] = HeaderFeb14
    /\ PrecedingDate = Date(2025, 1, 1)
    /\ last_date = Date(2025, 2, 14)

\* C17 (as claimed): once a line with a bullet or a 4-space indent and a time
\* whose AM/PM is in any letter case is handled, a new entry is open, its time
\* label the captured time with AM/PM in upper case.
C17_AnyCaseStartsEntry ==
    \A p \in 1..Len(lines) :
        (/\ JustHandled(p)
         /\ Strip(lines[p]) # <<>>
         /\ ~IsDayHeader(lines[p])
         /\ TimeMatch(Upper(lines[p])).matched) =>
            /\ current_entry_time = TimeLabel(Upper(lines[p]))
            /\ Len(current_entry_lines) <= 1

\* C18 (as claimed): once a line beginning with ## is handled, no entry is
\* pending and the line is in no entry body.
C18_EveryHashLineStartsDay ==
    \A p \in 1..Len(lines) :
        JustHandled(p) /\ StartsWith(lines[p], <<"#", "#">>) =>
            /\ current_entry_time = NoTime
            /\ \A n \in 1..Len(current_entry_lines) :
                  current_entry_lines[n] # lines[p]

\* The record is the one of the header at line p: it carries that header's text.
RecordOfHeader(day, p) ==
    day.info.original_header = Strip(LStripHash(Strip(lines[p])))

RECURSIVE EachFromOwnHeader(_, _)
\* The records from place n on belong, in order, to distinct parsed headers
\* among those from place h of parsed_headers on.
EachFromOwnHeader(n, h) ==
    IF n > Len(days) THEN TRUE
    ELSE IF h > Len(parsed_headers) THEN FALSE
    ELSE IF RecordOfHeader(days[n], parsed_headers[h])
    THEN EachFromOwnHeader(n + 1, h + 1)
    ELSE EachFromOwnHeader(n, h + 1)

\* C26: parse() emits each day at most once: the records of the list it
\* returns belong, one each and in order, to distinct header lines that
\* parsed, whatever unparseable headers stand between them.
C26_EachDayEmittedOnce ==
    dpc = "parsed" => EachFromOwnHeader(1, 1)

\* A step closes the pending entry: a day header, an entry start, or the end
\* of the input is reached while an entry is open.
ClosesEntry ==
    /\ dpc = "parsing"
    /\ current_entry_time # NoTime
    /\ \/ pos > Len(lines)
       \/ /\ pos <= Len(lines)
          /\ Strip(lines[pos]) # <<>>
          /\ IsDayHeader(lines[pos]) \/ TimeMatch(lines[pos]).matched

\* C27: the body recorded for an entry does not depend on what closes it: the
\* text a day header records for the pending lines is the text that an entry
\* start or the end of the input records for the same lines, which is the
\* lines joined.
C27_BodyWhateverFollows ==
    [][ClosesEntry =>
          LET recorded == IF Len(entries') = Len(entries) + 1
                          THEN entries'[Len(entries')]
                          ELSE LET closed == days'[Len(days')].entries
                               IN  closed[Len(closed)]
          IN  /\ recorded.time = current_entry_time
              /\ recorded.text = Join(current_entry_lines)]_dvars

(***************************************************************************)
(*                            OUTPUT CACHE                                 *)
(*                                                                         *)
(* tools/caching.py.  A text is the list of its lines, as readlines() cuts *)
(* it; a line of a cache file is the tuple of its pieces.  Time is counted *)
(* in whole ticks.                                                         *)
(***************************************************************************)

\* The last tick of the clock.
MaxClock == 4

\* The plugin modules whose fetch is wrapped by cached_output.
CachePlugins == {"weather", "strava"}

\* cached_output(max_age_seconds=...): the age limit each plugin asks for, in
\* ticks.
max_age_seconds(caller_filename) ==
    IF caller_filename = "weather" THEN 1 ELSE 2

\* The texts a wrapped fetch returns: the empty text, one line, and three
\* lines of which the second is the line that delimits the metadata.
FetchOutputs == {<<>>, <<"x\n">>, <<"a\n", "---\n", "b">>}

\* set_cache, line 28, and get_cache, line 41: the cache file of a caller.
cache_file(caller_filename) == <<caller_filename, ".cache.txt">>

\* No such file.
NoFile == <<>>

\* get_cache returns None.
NoData == [none |-> TRUE, text |-> <<>>]

\* set_cache(data) at time timestamp, lines 30-35: the lines of the file
\* written, the metadata block and then the content.
set_cache(data, timestamp) ==
    <<<<"---\n">>, <<"timestamp: ", timestamp, "\n">>, <<"---\n">>>>
        \o [n \in 1..Len(data) |-> <<data[n]>>]

\* lines.index("---\n", 1): the first position after the first line (counted
\* from 1) that holds the delimiter; 0 when there is none.
IndexOfDelimiter(file_lines) ==
    IF \E n \in 2..Len(file_lines) : file_lines[n] = <<"---\n">>
    THEN CHOOSE n \in 2..Len(file_lines) :
            /\ file_lines[n] = <<"---\n">>
            /\ \A b \in 2..(n - 1) : file_lines[b] # <<"---\n">>
    ELSE 0

\* get_cache ignoring lines 60-64: an entry of any age is returned.
get_cache_any_age(file_lines, max_age, time_now) ==
    IF file_lines = NoFile THEN [none |-> TRUE, text |-> <<>>]
    ELSE IF file_lines[1] # <<"---\n">> THEN [none |-> TRUE, text |-> <<>>]
    ELSE LET idx == IndexOfDelimiter(file_lines)
             content == [n \in 1..(Len(file_lines) - idx) |->
                            file_lines[idx + n][1]]
         IN  [none |-> FALSE, text |-> content]

\* get_cache(max_age_seconds), lines 43-66, on the lines of the caller's file
\* at time time_now: the content, or None for no file, a file that does not
\* open with the delimiter, or an entry older than max_age.
get_cache(file_lines, max_age, time_now) ==
    IF file_lines = NoFile THEN NoData
    ELSE IF file_lines[1] # <<"---\n">> THEN NoData
    ELSE LET idx == IndexOfDelimiter(file_lines)
             \* lines 53-55: the metadata lines, "key: value"
             stamps == {file_lines[n][2] : n \in
                          {b \in 2..(idx - 1) :
                              file_lines[b][1] = "timestamp: "}}
             cache_time == CHOOSE t \in stamps : TRUE
             content == [n \in 1..(Len(file_lines) - idx) |->
                            file_lines[idx + n][1]]
             age == time_now - cache_time
         IN  IF age > max_age THEN NoData
             ELSE [none |-> FALSE, text |-> content]

VARIABLES
    cache_dir,     \* CACHE_DIR: the lines of each cache file, NoFile if none
    time_now,      \* datetime.now(), in ticks
    cpc,           \* where the wrapper is
    caller,        \* the plugin module whose wrapped function is called
    cache_data,    \* wrapper: cache_data
    fetches,       \* how many times this call has invoked the wrapped function
    returned,      \* what the wrapper returned
    stored,        \* per plugin, the text last stored and when
    called_at      \* the time the wrapper was entered

cvars == <<cache_dir, time_now, cpc, caller, cache_data, fetches, returned,
           stored, called_at>>

\* Nothing stored for a plugin yet.
NothingStored == [exists |-> FALSE, text |-> <<>>, at |-> 0]

\* The cache directory is empty and the clock starts.
CacheInit ==
    /\ cache_dir = [f \in {cache_file(q) : q \in CachePlugins} |-> NoFile]
    /\ time_now = 0
    /\ cpc = "idle"
    /\ caller = "weather"
    /\ cache_data = NoData
    /\ fetches = 0
    /\ returned = <<>>
    /\ stored = [q \in CachePlugins |-> NothingStored]
    /\ called_at = 0

\* No wrapped function is ever called.
CacheIdle ==
    /\ cache_dir = [f \in {cache_file(q) : q \in CachePlugins} |-> NoFile]
    /\ time_now = 0
    /\ cpc = "off"
    /\ caller = "weather"
    /\ cache_data = NoData
    /\ fetches = 0
    /\ returned = <<>>
    /\ stored = [q \in CachePlugins |-> NothingStored]
    /\ called_at = 0

\* Time passes, between calls and while a fetch runs.
Tick ==
    /\ cpc \in {"idle", "fetching"}
    /\ time_now < MaxClock
    /\ time_now' = time_now + 1
    /\ UNCHANGED <<cache_dir, cpc, caller, cache_data, fetches, returned,
                   stored, called_at>>

\* wrapper, lines 76-79: the cache holds fresh, non-empty data, which is
\* returned.
CacheHit ==
    /\ cpc = "idle"
    /\ \E q \in CachePlugins :
          LET data == get_cache(cache_dir[cache_file(q)], max_age_seconds(q),
                                time_now)
          IN  /\ ~data.none /\ data.text # <<>>
              /\ caller' = q
              /\ cache_data' = data
              /\ returned' = data.text
    /\ fetches' = 0
    /\ called_at' = time_now
    /\ cpc' = "returned"
    /\ UNCHANGED <<cache_dir, time_now, stored>>

\* wrapper, lines 76-81: the cache holds nothing to return; the wrapped
\* function is invoked.
CacheMiss ==
    /\ cpc = "idle"
    /\ \E q \in CachePlugins :
          LET data == get_cache(cache_dir[cache_file(q)], max_age_seconds(q),
                                time_now)
          IN  /\ data.none \/ data.text = <<>>
              /\ caller' = q
              /\ cache_data' = data
    /\ fetches' = 1
    /\ called_at' = time_now
    /\ returned' = <<>>
    /\ cpc' = "fetching"
    /\ UNCHANGED <<cache_dir, time_now, stored>>

\* wrapper, lines 81-83: the wrapped function returns its text, which is
\* stored with the time of the store and returned.
FetchReturns ==
    /\ cpc = "fetching"
    /\ \E output \in FetchOutputs :
          /\ cache_dir' = [cache_dir EXCEPT
                              ![cache_file(caller)] = set_cache(output, time_now)]
          /\ stored' = [stored EXCEPT
                           ![caller] = [exists |-> TRUE, text |-> output,
                                        at |-> time_now]]
          /\ returned' = output
    /\ cpc' = "returned"
    /\ UNCHANGED <<time_now, caller, cache_data, fetches, called_at>>

\* The text get_weather_text returns when fetch_weather has failed:
\* f"Error: {weather['error']}".
FetchFailureText == <<"Error: Failed to fetch weather data: no network">>

\* wrapper, lines 81-83, for get_weather_text when the fetch fails:
\* fetch_weather catches the exception and get_weather_text returns the error
\* text, which the wrapper stores and returns as any other text.
FetchFails ==
    /\ cpc = "fetching"
    /\ caller = "weather"
    /\ cache_dir' = [cache_dir EXCEPT
                        ![cache_file(caller)] = set_cache(FetchFailureText, time_now)]
    /\ stored' = [stored EXCEPT
                     ![caller] = [exists |-> TRUE, text |-> FetchFailureText,
                                  at |-> time_now]]
    /\ returned' = FetchFailureText
    /\ cpc' = "returned"
    /\ UNCHANGED <<time_now, caller, cache_data, fetches, called_at>>

\* wrapper, line 81: the wrapped function raises; the wrapper has no handler,
\* so nothing is stored and the exception leaves the wrapper.
FetchRaises ==
    /\ cpc = "fetching"
    /\ cpc' = "raised"
    /\ UNCHANGED <<cache_dir, time_now, caller, cache_data, fetches, returned,
                   stored, called_at>>

\* The call is over; the plugin may be run again.
CallOver ==
    /\ cpc \in {"returned", "raised"}
    /\ cpc' = "idle"
    /\ UNCHANGED <<cache_dir, time_now, caller, cache_data, fetches, returned,
                   stored, called_at>>

(***************************************************************************)
(*                       OUTPUT CACHE: PROPERTIES                          *)
(***************************************************************************)

\* When the call was entered the caller had an entry, stored no longer than
\* its age limit before, with text in it.  (Read before the call stores.)
FreshAtCall ==
    /\ stored[caller].exists
    /\ called_at - stored[caller].at <= max_age_seconds(caller)
    /\ stored[caller].text # <<>>

C29_FailureNeverServedFromCache ==
    cpc = "returned" /\ fetches = 0 /\ caller = "weather" =>
        returned # FetchFailureText

(***************************************************************************)
(*                            RATE LIMITER                                 *)
(*                                                                         *)
(* plugins/quip_docs.py: RateLimiter and make_api_call.  Time is counted   *)
(* in whole ticks.                                                         *)
(***************************************************************************)

\* The last tick of the limiter's clock.
MaxTime == 8

\* rate_limiter = RateLimiter(): the global instance, its four settings scaled
\* down from (49, 45, 60, 10) with their order kept: safe_threshold below
\* max_calls - 1, wait_time below window.
rate_limiter ==
    [max_calls |-> 3, safe_threshold |-> 1, window |-> 4, wait_time |-> 1]

\* clean_old_calls at time now: the timestamps within the window are kept.
clean_old_calls(ts, now) ==
    SelectSeq(ts, LAMBDA t : now - t < rate_limiter.window)

VARIABLES
    timestamps,    \* self.timestamps
    limiter_time,  \* time.time(), in ticks
    rpc,           \* where make_api_call is
    count,         \* wait_if_necessary: count
    reached_max,   \* this wait_if_necessary found count >= max_calls
    history        \* the time of every call recorded so far

rvars == <<timestamps, limiter_time, rpc, count, reached_max, history>>

\* The module is imported: no call is recorded.
LimiterInit ==
    /\ timestamps = <<>>
    /\ limiter_time = 0
    /\ rpc = "idle"
    /\ count = 0
    /\ reached_max = FALSE
    /\ history = <<>>

\* The module is not in use.
LimiterIdle ==
    /\ timestamps = <<>>
    /\ limiter_time = 0
    /\ rpc = "off"
    /\ count = 0
    /\ reached_max = FALSE
    /\ history = <<>>

\* Time passes between two calls of make_api_call.
TimePasses ==
    /\ rpc = "idle"
    /\ limiter_time < MaxTime
    /\ limiter_time' = limiter_time + 1
    /\ UNCHANGED <<timestamps, rpc, count, reached_max, history>>

\* WaitIfNecessary without the loop of lines 86-89: it returns at any count.
WaitIfNecessaryNeverWaits ==
    /\ rpc = "idle"
    /\ timestamps' = clean_old_calls(timestamps, limiter_time)
    /\ count' = Len(timestamps')
    /\ reached_max' = (count' >= rate_limiter.max_calls)
    /\ rpc' = "proceed"
    /\ UNCHANGED <<limiter_time, history>>

\* make_api_call, line 109, and wait_if_necessary, lines 80-86: the old calls
\* are dropped and the rest counted; at max_calls or more the loop is entered,
\* otherwise the function returns.
WaitIfNecessary ==
    /\ rpc = "idle"
    /\ timestamps' = clean_old_calls(timestamps, limiter_time)
    /\ count' = Len(timestamps')
    /\ reached_max' = (count' >= rate_limiter.max_calls)
    /\ rpc' = IF count' >= rate_limiter.max_calls THEN "waiting"
              ELSE "proceed"
    /\ UNCHANGED <<limiter_time, history>>

\* wait_if_necessary, lines 86-89: one turn of the loop.  The sleep lasts
\* wait_time or longer; the calls are counted again, and the function returns
\* once the count is below max_calls.
SleepAndRecount ==
    /\ rpc = "waiting"
    /\ \E slept \in rate_limiter.wait_time..(rate_limiter.wait_time + 1) :
          /\ limiter_time + slept <= MaxTime
          /\ limiter_time' = limiter_time + slept
    /\ timestamps' = clean_old_calls(timestamps, limiter_time')
    /\ count' = Len(timestamps')
    /\ rpc' = IF count' >= rate_limiter.max_calls THEN "waiting"
              ELSE "proceed"
    /\ UNCHANGED <<reached_max, history>>

\* make_api_call, line 110: wait_if_necessary has returned and the request is
\* sent.
IssueRequest ==
    /\ rpc = "proceed"
    /\ rpc' = "requesting"
    /\ UNCHANGED <<timestamps, limiter_time, count, reached_max, history>>

\* make_api_call, lines 110-112, and record_call, lines 61-64: the response
\* has come, at once or a tick later; the call is recorded with the time of
\* the recording and the old calls are dropped.
RecordCall ==
    /\ rpc = "requesting"
    /\ \E took \in 0..1 :
          /\ limiter_time + took <= MaxTime
          /\ limiter_time' = limiter_time + took
    /\ timestamps' = clean_old_calls(Append(timestamps, limiter_time'),
                                     limiter_time')
    /\ history' = Append(history, limiter_time')
    /\ rpc' = "idle"
    /\ UNCHANGED <<count, reached_max>>

\* make_api_call, line 110: requests.get raises; the exception leaves
\* make_api_call and the call is not recorded.
RequestRaises ==
    /\ rpc = "requesting"
    /\ rpc' = "idle"
    /\ UNCHANGED <<timestamps, limiter_time, count, reached_max, history>>

(***************************************************************************)
(*                       RATE LIMITER: PROPERTIES                          *)
(***************************************************************************)

\* C20 (as claimed): a wait_if_necessary that found max_calls or more calls in
\* the window returns only with a count of safe_threshold or lower.
C20_ReturnsOnlyAtSafeThreshold ==
    rpc = "proceed" /\ reached_max => count <= rate_limiter.safe_threshold

\* The calls recorded at a time t with lo <= t < hi.
RecordedWithin(lo, hi) ==
    Cardinality({n \in 1..Len(history) : lo <= history[n] /\ history[n] < hi})

\* The calls recorded less than a window before now.
RecordedInWindow ==
    RecordedWithin(limiter_time - rate_limiter.window + 1, limiter_time + 1)

\* C21: a request is issued only while fewer than max_calls calls are recorded
\* within the window before it; no span of one window's length holds more
\* than max_calls recorded calls; and the count wait_if_necessary acts on is
\* that of the calls within the window, older ones left out.
C21_WindowNeverOverfull ==
    /\ rpc \in {"proceed", "requesting"} =>
          RecordedInWindow < rate_limiter.max_calls
    /\ \A lo \in 0..limiter_time :
          RecordedWithin(lo, lo + rate_limiter.window) <= rate_limiter.max_calls
    /\ rpc \in {"proceed", "waiting"} => count = RecordedInWindow

\* C21 witness: wait_if_necessary has slept at a full window and returned
\* once a call left the window; more calls are recorded than a window holds.
C21_Witness ==
    /\ rpc = "proceed"
    /\ reached_max
    /\ count = rate_limiter.max_calls - 1
    /\ Len(history) > rate_limiter.max_calls
    /\ Len(timestamps) < Len(history)

(***************************************************************************)
(* MEETINGS: run_meeting of meeting.py (a leader calls on each participant)*)
(* and run_meeting of meeting_round.py (rounds of responses).  A transcript*)
(* is a sequence of lines, a line a tuple of the pieces its f-string puts  *)
(* together; a text the model returns is a sequence of characters.         *)
(***************************************************************************)

\* The most personalities meeting.yml lists, and the most rounds it asks for.
MaxParticipants == 2
MaxRounds == 2

\* Names meeting.yml may list; "coach" is in personalities.yml as "Coach".
PersonalityInputs == {"coach", "chef"}

\* The chunks a model call may stream back, joined.
GenaiStreams == {<<" ", "a", "\n">>, <<"b">>}

\* meeting.yml: the leader ("" when the key is absent), the personalities,
\* and max_rounds.
MeetingConfigs ==
    [leader : {"", "lead"},
     personalities : SeqsUpTo(PersonalityInputs, MaxParticipants),
     max_rounds : 0..MaxRounds]

\* The name of the configuration get_personality_config returns: the entry of
\* personalities.yml whose name matches case-insensitively, else the input.
get_personality_config(input_value) ==
    IF input_value = "coach" THEN "Coach" ELSE input_value

\* call_genai: the joined chunks, stripped.
call_genai(stream) == Strip(stream)

VARIABLES
    meeting_config,         \* the loaded meeting.yml
    mpc,                    \* where run_meeting is
    transcript,             \* the list transcript
    conversation_so_far,    \* the transcript lines joined when last computed
    participant,            \* position of the for loop over the participants
    tailored_question,      \* the question the leader has just generated
    participant_responses,  \* the dict, as <<name, response>> in insertion order
    current_round,          \* the round counter of meeting_round.py
    prompts,                \* every prompt given to call_genai so far
    meeting_logs            \* the contents of the log files written

mvars == <<meeting_config, mpc, transcript, conversation_so_far, participant,
           tailored_question, participant_responses, current_round, prompts,
           meeting_logs>>

\* The participants' names, in the order of meeting.yml.
participants == [n \in 1..Len(meeting_config.personalities) |->
                    get_personality_config(meeting_config.personalities[n])]

leader_name == get_personality_config(meeting_config.leader)

\* The lines the transcript starts with; the last one differs by program.
MeetingHeader(last) ==
    << <<"=== Meeting Objective ===">>, <<"objective">>, <<"\n=== User ===">>,
       <<"User: ", "user_name">>, <<"\n=== Initial Plugin Context ===">>,
       <<"context">>, <<last>> >>

MeetingLocals ==
    /\ transcript = <<>>
    /\ conversation_so_far = <<>>
    /\ participant = 1
    /\ tailored_question = <<>>
    /\ participant_responses = <<>>
    /\ current_round = 1
    /\ prompts = <<>>
    /\ meeting_logs = <<>>

\* run_meeting is about to start, with some meeting.yml.
MeetingInit ==
    /\ meeting_config \in MeetingConfigs
    /\ mpc = "start"
    /\ MeetingLocals

\* No meeting runs.
MeetingIdle ==
    /\ meeting_config = [leader |-> "", personalities |-> <<>>, max_rounds |-> 0]
    /\ mpc = "off"
    /\ MeetingLocals

\* d[key] = value on a dict: an existing key keeps its place.
DictSet(d, key, value) ==
    IF \E n \in 1..Len(d) : d[n][1] = key
    THEN [n \in 1..Len(d) |-> IF d[n][1] = key THEN <<key, value>> ELSE d[n]]
    ELSE Append(d, <<key, value>>)

\* ---- meeting.py ----

\* No leader in meeting.yml: the error is printed and run_meeting returns.
NoLeader ==
    /\ mpc = "start"
    /\ meeting_config.leader = ""
    /\ mpc' = "done"
    /\ UNCHANGED <<meeting_config, transcript, conversation_so_far, participant,
                   tailored_question, participant_responses, current_round,
                   prompts, meeting_logs>>

\* The configurations and the context are read, the transcript is started.
MeetingBegins ==
    /\ mpc = "start"
    /\ meeting_config.leader # ""
    /\ transcript' = MeetingHeader("\n=== Meeting Begins ===")
    /\ conversation_so_far' = transcript'
    /\ mpc' = "opening"
    /\ UNCHANGED <<meeting_config, participant, tailored_question,
                   participant_responses, current_round, prompts, meeting_logs>>

\* The position after the loop body for the participant at n: the next
\* participant's question, or the final plan after the last one.
AfterParticipant(n) == IF n < Len(participants) THEN "question" ELSE "final"

\* The leader opens the meeting.
LeaderOpens ==
    /\ mpc = "opening"
    /\ \E stream \in GenaiStreams :
          /\ prompts' = Append(prompts, [kind |-> "opening",
                                         conversation |-> <<>>,
                                         question |-> <<>>,
                                         inputs |-> <<>>])
          /\ transcript' = Append(transcript,
                  <<leader_name, " (Leader): ", call_genai(stream)>>)
    /\ conversation_so_far' = transcript'
    /\ participant_responses' = <<>>
    /\ participant' = 1
    /\ mpc' = AfterParticipant(0)
    /\ UNCHANGED <<meeting_config, tailored_question, current_round, meeting_logs>>

\* The leader generates a question for the participant whose turn it is.
LeaderAsks ==
    /\ mpc = "question"
    /\ \E stream \in GenaiStreams :
          /\ prompts' = Append(prompts, [kind |-> "question",
                                         conversation |-> conversation_so_far,
                                         question |-> <<>>,
                                         inputs |-> <<>>])
          /\ tailored_question' = call_genai(stream)
    /\ transcript' = Append(transcript,
          <<leader_name, " (Leader) asks ", participants[participant], ": ",
            tailored_question'>>)
    /\ mpc' = "response"
    /\ UNCHANGED <<meeting_config, conversation_so_far, participant,
                   participant_responses, current_round, meeting_logs>>

\* As ParticipantResponds, but the thanks come from a model call too.
ParticipantRespondsThanksGenerated ==
    /\ mpc = "response"
    /\ \E stream \in GenaiStreams :
          LET pname == participants[participant]
              participant_response == call_genai(stream)
          IN  /\ prompts' = prompts \o
                      << [kind |-> "response",
                          conversation |-> conversation_so_far,
                          question |-> tailored_question,
                          inputs |-> <<>>],
                         [kind |-> "thanks",
                          conversation |-> conversation_so_far,
                          question |-> <<>>,
                          inputs |-> <<>>] >>
              /\ transcript' = transcript \o
                      << <<pname, "'s response: ", participant_response>>,
                         <<leader_name, " (Leader): ", "Thank you, ", pname,
                           ", for your valuable input.">> >>
              /\ participant_responses' =
                      DictSet(participant_responses, pname, participant_response)
    /\ conversation_so_far' = transcript'
    /\ participant' = participant + 1
    /\ mpc' = AfterParticipant(participant)
    /\ UNCHANGED <<meeting_config, tailored_question, current_round, meeting_logs>>

\* The participant answers the question and the leader thanks them.
ParticipantResponds ==
    /\ mpc = "response"
    /\ \E stream \in GenaiStreams :
          LET pname == participants[participant]
              participant_response == call_genai(stream)
          IN  /\ prompts' = Append(prompts,
                      [kind |-> "response",
                       conversation |-> conversation_so_far,
                       question |-> tailored_question,
                       inputs |-> <<>>])
              /\ transcript' = transcript \o
                      << <<pname, "'s response: ", participant_response>>,
                         <<leader_name, " (Leader): ", "Thank you, ", pname,
                           ", for your valuable input.">> >>
              /\ participant_responses' =
                      DictSet(participant_responses, pname, participant_response)
    /\ conversation_so_far' = transcript'
    /\ participant' = participant + 1
    /\ mpc' = AfterParticipant(participant)
    /\ UNCHANGED <<meeting_config, tailored_question, current_round, meeting_logs>>

\* The leader integrates the participants' inputs into the final plan.
FinalPlan ==
    /\ mpc = "final"
    /\ \E stream \in GenaiStreams :
          /\ prompts' = Append(prompts, [kind |-> "final",
                                         conversation |-> <<>>,
                                         question |-> <<>>,
                                         inputs |-> participant_responses])
          /\ transcript' = transcript \o
                  << <<"\n=== Final Plan (Provided by Leader) ===">>,
                     <<call_genai(stream)>>,
                     <<"\n=== Meeting Transcript End ===">> >>
    /\ conversation_so_far' = transcript'
    /\ mpc' = "save"
    /\ UNCHANGED <<meeting_config, participant, tailored_question,
                   participant_responses, current_round, meeting_logs>>

\* The transcript is written to its log file.
SaveTranscript ==
    /\ mpc = "save"
    /\ meeting_logs' = Append(meeting_logs, conversation_so_far)
    /\ mpc' = "done"
    /\ UNCHANGED <<meeting_config, transcript, conversation_so_far, participant,
                   tailored_question, participant_responses, current_round,
                   prompts>>

\* The model call raises (no key, no network): run_meeting ends there.
GenaiRaises ==
    /\ mpc \in {"opening", "question", "response", "final"}
    /\ prompts' = Append(prompts, [kind |-> mpc,
                                   conversation |-> conversation_so_far,
                                   question |-> tailored_question,
                                   inputs |-> participant_responses])
    /\ mpc' = "raised"
    /\ UNCHANGED <<meeting_config, transcript, conversation_so_far, participant,
                   tailored_question, participant_responses, current_round,
                   meeting_logs>>

\* ---- meeting_round.py ----

\* The position after the response of the personality at n in a round, and
\* the round counter there.
AfterPersonality(n) == IF n < Len(participants) THEN "speak" ELSE "round"

\* The configurations and the context are read, the transcript is started.
RoundMeetingBegins ==
    /\ mpc = "start"
    /\ transcript' = MeetingHeader("\n=== Meeting Conversation Start ===")
    /\ conversation_so_far' = transcript'
    /\ current_round' = 1
    /\ mpc' = "round"
    /\ UNCHANGED <<meeting_config, participant, tailored_question,
                   participant_responses, prompts, meeting_logs>>

\* A round starts: its header goes to the transcript.
RoundHeader ==
    /\ mpc = "round"
    /\ current_round <= meeting_config.max_rounds
    /\ transcript' = Append(transcript, <<"\n--- Round ", ToString(current_round), " ---">>)
    /\ participant' = 1
    /\ mpc' = AfterPersonality(0)
    /\ current_round' = IF participants = <<>> THEN current_round + 1
                        ELSE current_round
    /\ UNCHANGED <<meeting_config, conversation_so_far, tailored_question,
                   participant_responses, prompts, meeting_logs>>

\* As PersonalityResponds, but the prompt is the one of the start of the round.
PersonalityRespondsStalePrompt ==
    /\ mpc = "speak"
    /\ \E stream \in GenaiStreams :
          /\ prompts' = Append(prompts, [kind |-> "insight",
                                         conversation |-> conversation_so_far,
                                         question |-> <<>>,
                                         inputs |-> <<>>])
          /\ transcript' = Append(transcript,
                  <<participants[participant], ": ", call_genai(stream)>>)
    /\ conversation_so_far' = IF participant < Len(participants)
                              THEN conversation_so_far ELSE transcript'
    /\ participant' = participant + 1
    /\ mpc' = AfterPersonality(participant)
    /\ current_round' = IF participant < Len(participants) THEN current_round
                        ELSE current_round + 1
    /\ UNCHANGED <<meeting_config, tailored_question, participant_responses,
                   meeting_logs>>

\* The personality whose turn it is gives its next insight.
PersonalityResponds ==
    /\ mpc = "speak"
    /\ \E stream \in GenaiStreams :
          /\ prompts' = Append(prompts, [kind |-> "insight",
                                         conversation |-> conversation_so_far,
                                         question |-> <<>>,
                                         inputs |-> <<>>])
          /\ transcript' = Append(transcript,
                  <<participants[participant], ": ", call_genai(stream)>>)
    /\ conversation_so_far' = transcript'
    /\ participant' = participant + 1
    /\ mpc' = AfterPersonality(participant)
    /\ current_round' = IF participant < Len(participants) THEN current_round
                        ELSE current_round + 1
    /\ UNCHANGED <<meeting_config, tailored_question, participant_responses,
                   meeting_logs>>

\* After the last round the final plan is extracted from the conversation.
RoundFinalPlan ==
    /\ mpc = "round"
    /\ current_round > meeting_config.max_rounds
    /\ \E stream \in GenaiStreams :
          /\ prompts' = Append(prompts, [kind |-> "final",
                                         conversation |-> conversation_so_far,
                                         question |-> <<>>,
                                         inputs |-> <<>>])
          /\ transcript' = transcript \o
                  << <<"\n=== Final Plan Extraction ===">>,
                     <<"Final Plan:">>,
                     <<call_genai(stream)>>,
                     <<"\n=== Meeting Transcript End ===">> >>
    /\ conversation_so_far' = transcript'
    /\ mpc' = "save"
    /\ UNCHANGED <<meeting_config, participant, tailored_question,
                   participant_responses, current_round, meeting_logs>>

\* The transcript is written to its log file.
RoundSaveTranscript ==
    /\ mpc = "save"
    /\ meeting_logs' = Append(meeting_logs, conversation_so_far)
    /\ mpc' = "done"
    /\ UNCHANGED <<meeting_config, transcript, conversation_so_far, participant,
                   tailored_question, participant_responses, current_round,
                   prompts>>

\* The model call raises: run_meeting ends there.
RoundGenaiRaises ==
    /\ \/ mpc = "speak"
       \/ mpc = "round" /\ current_round > meeting_config.max_rounds
    /\ prompts' = Append(prompts, [kind |-> IF mpc = "speak" THEN "insight"
                                            ELSE "final",
                                   conversation |-> conversation_so_far,
                                   question |-> <<>>,
                                   inputs |-> <<>>])
    /\ mpc' = "raised"
    /\ UNCHANGED <<meeting_config, transcript, conversation_so_far, participant,
                   tailored_question, participant_responses, current_round,
                   meeting_logs>>

(***************************************************************************)
(* MEETING PROPERTIES                                                      *)
(***************************************************************************)

\* The transcript after its header lines.
Conversation == SubSeq(transcript, Len(MeetingHeader("")) + 1, Len(transcript))

IsOpening(line) ==
    Len(line) = 3 /\ line[1] = leader_name /\ line[2] = " (Leader): "

IsAsks(line, pname) ==
    /\ Len(line) = 5
    /\ line[1] = leader_name /\ line[2] = " (Leader) asks "
    /\ line[3] = pname /\ line[4] = ": "

IsResponse(line, pname) ==
    Len(line) = 3 /\ line[1] = pname /\ line[2] = "'s response: "

IsThanks(line, pname) ==
    /\ Len(line) = 5
    /\ line[1] = leader_name /\ line[2] = " (Leader): "
    /\ line[3] = "Thank you, " /\ line[4] = pname
    /\ line[5] = ", for your valuable input."

\* The line at place n of the conversation is the one the order asks for:
\* the opening, then question, response and thanks per participant, then the
\* three lines of the final plan.
InLeaderOrder(n) ==
    LET line == Conversation[n]
        P == Len(participants)
        turn == (n + 1) \div 3
    IN  IF n = 1 THEN IsOpening(line)
        ELSE IF n <= 1 + 3 * P
        THEN CASE n % 3 = 2 -> IsAsks(line, participants[turn])
               [] n % 3 = 0 -> IsResponse(line, participants[turn])
               [] OTHER -> IsThanks(line, participants[turn])
        ELSE /\ n <= 4 + 3 * P
             /\ n = 2 + 3 * P => line = <<"\n=== Final Plan (Provided by Leader) ===">>
             /\ n = 3 + 3 * P => Len(line) = 1
             /\ n = 4 + 3 * P => line = <<"\n=== Meeting Transcript End ===">>

\* The model calls are the opening, then per participant the question and
\* the response to that very question, then the final plan.
CallsInLeaderOrder ==
    LET P == Len(participants)
    IN  /\ Len(prompts) = 2 + 2 * P
        /\ prompts[1].kind = "opening"
        /\ \A n \in 1..P :
              /\ prompts[2 * n].kind = "question"
              /\ prompts[2 * n + 1].kind = "response"
              /\ prompts[2 * n + 1].question = Conversation[3 * n - 1][5]
        /\ prompts[2 + 2 * P].kind = "final"

\* C22: a leader-mode run_meeting with a leader configured puts into the
\* transcript the leader's opening, then for each participant in configured
\* order the leader's question, the participant's response (whose prompt holds
\* that question) and the leader's thanks, then the final plan; it saves the
\* transcript once, after the final plan, and has made 2 + 2*P model calls.
C22_LeaderMeetingOrder ==
    /\ \A n \in 1..Len(Conversation) : InLeaderOrder(n)
    /\ mpc \in {"save", "done"} /\ meeting_config.leader # "" =>
          /\ Len(Conversation) = 4 + 3 * Len(participants)
          /\ CallsInLeaderOrder
          /\ conversation_so_far = transcript
    /\ mpc = "done" /\ meeting_config.leader # "" => meeting_logs = <<transcript>>
    /\ mpc # "done" => meeting_logs = <<>>

\* A meeting with two participants has been held and saved.
C22_Witness ==
    /\ mpc = "done"
    /\ Len(participants) = MaxParticipants
    /\ Len(meeting_logs) = 1
    /\ Len(prompts) = 2 + 2 * MaxParticipants

\* The place in the conversation of the n-th response of a meeting in rounds:
\* every round is its header line and one line per personality.
ResponsePlace(n) ==
    LET P == Len(participants)
    IN  ((n - 1) \div P) * (P + 1) + 1 + (((n - 1) % P) + 1)

\* The line at place n of the conversation is the one the rounds ask for.
InRoundOrder(n) ==
    LET line == Conversation[n]
        P == Len(participants)
        R == meeting_config.max_rounds
        round == (n - 1) \div (P + 1) + 1
        turn == (n - 1) % (P + 1)
    IN  IF n <= R * (P + 1)
        THEN IF turn = 0
             THEN line = <<"\n--- Round ", ToString(round), " ---">>
             ELSE Len(line) = 3 /\ line[1] = participants[turn] /\ line[2] = ": "
        ELSE /\ n <= R * (P + 1) + 4
             /\ n = R * (P + 1) + 1 => line = <<"\n=== Final Plan Extraction ===">>
             /\ n = R * (P + 1) + 2 => line = <<"Final Plan:">>
             /\ n = R * (P + 1) + 3 => Len(line) = 1
             /\ n = R * (P + 1) + 4 => line = <<"\n=== Meeting Transcript End ===">>

\* The prompt of the n-th response holds every response made before it.
PromptHoldsEarlierResponses(n) ==
    \A m \in 1..(n - 1) :
        LET place == Len(MeetingHeader("")) + ResponsePlace(m)
        IN  /\ Len(prompts[n].conversation) >= place
            /\ prompts[n].conversation[place] = transcript[place]

\* C23: a round-mode run_meeting runs max_rounds rounds; in each round every
\* configured personality responds once, in configured order, to a prompt
\* that holds every earlier response; one final-plan call follows the last
\* round, and the transcript is saved after it.
C23_RoundMeetingOrder ==
    LET P == Len(participants)
        R == meeting_config.max_rounds
    IN  /\ \A n \in 1..Len(Conversation) : InRoundOrder(n)
        /\ \A n \in 1..Len(prompts) :
              /\ n <= R * P => prompts[n].kind = "insight"
              /\ n > R * P => n = R * P + 1 /\ prompts[n].kind = "final"
              /\ PromptHoldsEarlierResponses(n)
        /\ mpc \in {"save", "done"} =>
              /\ Len(Conversation) = R * (P + 1) + 4
              /\ Len(prompts) = R * P + 1
        /\ mpc = "done" => meeting_logs = <<transcript>>
        /\ mpc # "done" => meeting_logs = <<>>

\* Two rounds of two personalities have been held and saved.
C23_Witness ==
    /\ mpc = "done"
    /\ Len(participants) = MaxParticipants
    /\ meeting_config.max_rounds = MaxRounds
    /\ Len(prompts) = MaxRounds * MaxParticipants + 1
    /\ Len(meeting_logs) = 1

(***************************************************************************)
(* CURRENT WEEK: process_current_week of obsidian_notes.py.  The Day Log   *)
(* is parsed, the days of the current week are written out as markdown     *)
(* again, and that markdown is converted by a second DiaryConverter.       *)
(***************************************************************************)

\* The days date.today() may return.
Todays == {Date(2025, 12, 30), Date(2026, 1, 2)}

\* datetime._isoweek1monday: the ordinal of the Monday that starts ISO week 1.
isoweek1monday(year) ==
    LET firstday == ToOrdinal(Date(year, 1, 1))
        firstweekday == (firstday + 6) % 7
    IN  IF firstweekday > 3 THEN firstday - firstweekday + 7
        ELSE firstday - firstweekday

\* date.isocalendar()[1]: the ISO week number, 1..53.
isocalendar_week(dt) ==
    LET ordinal == ToOrdinal(dt)
        since == ordinal - isoweek1monday(dt.year)
    IN  IF since < 0
        THEN (ordinal - isoweek1monday(dt.year - 1)) \div 7 + 1
        ELSE IF since \div 7 >= 52 /\ ordinal >= isoweek1monday(dt.year + 1)
        THEN 1
        ELSE since \div 7 + 1

RECURSIVE SplitLines(_)
\* str.splitlines() for a text whose only line break is "\n".
SplitLines(s) ==
    IF s = <<>> THEN <<>>
    ELSE IF \E n \in 1..Len(s) : s[n] = "\n"
    THEN LET n == CHOOSE n \in 1..Len(s) :
                     s[n] = "\n" /\ \A b \in 1..(n - 1) : s[b] # "\n"
         IN  <<SubSeq(s, 1, n - 1)>> \o SplitLines(SubSeq(s, n + 1, Len(s)))
    ELSE <<s>>

RECURSIVE EntriesMarkdown(_)
\* Lines 75-76: "- **{time_str}** {entry_text}\n" for every entry.
EntriesMarkdown(es) ==
    IF es = <<>> THEN <<>>
    ELSE <<"-", " ", "*", "*">> \o Head(es).time \o <<"*", "*", " ">>
         \o Head(es).text \o <<"\n">> \o EntriesMarkdown(Tail(es))

\* Lines 74-76: the markdown of one day.
DayMarkdown(day) ==
    <<"#", "#", " ">> \o day.info.original_header \o <<"\n">>
    \o EntriesMarkdown(day.entries)

VARIABLES
    today,                  \* date.today()
    wpc,                    \* where process_current_week is
    current_week_entries    \* the days kept, as the first parse returned them

wvars == <<today, wpc, current_week_entries>>

\* process_current_week is entered on some day.
WeekInit ==
    /\ today \in Todays
    /\ wpc = "first"
    /\ current_week_entries = <<>>

\* process_current_week is not running.
WeekIdle ==
    /\ today = Date(2025, 12, 30)
    /\ wpc = "off"
    /\ current_week_entries = <<>>

\* Lines 70-73: the test a day must pass to be kept.
InCurrentWeek(parsed_day) ==
    /\ parsed_day.year = today.year
    /\ isocalendar_week(parsed_day) = isocalendar_week(today)

\* Lines 68-77 on the days the first parse returned.
KeptDays == SelectSeq(days, LAMBDA day : InCurrentWeek(day.info.parsed))

\* Lines 64-81: the days of the current week are written out as markdown and
\* a new DiaryConverter starts on it.
FilterCurrentWeek ==
    /\ wpc = "first"
    /\ dpc = "parsed"
    /\ KeptDays # <<>>
    /\ current_week_entries' = KeptDays
    /\ lines' = SplitLines(Join([n \in 1..Len(KeptDays) |-> DayMarkdown(KeptDays[n])]))
    /\ wpc' = "second"
    /\ pos' = 1
    /\ days' = <<>>
    /\ current_day_info' = NoDay
    /\ entries' = <<>>
    /\ current_entry_time' = NoTime
    /\ current_entry_lines' = <<>>
    /\ last_date' = None
    /\ parsed_headers' = <<>>
    /\ dpc' = "parsing"
    /\ UNCHANGED <<have_dateutil, xml, conversion, first_xml, today>>

\* Lines 79 and 82: no day was kept, "" is returned.
NothingThisWeek ==
    /\ wpc = "first"
    /\ dpc = "parsed"
    /\ KeptDays = <<>>
    /\ wpc' = "empty"
    /\ UNCHANGED <<dvars, today, current_week_entries>>

\* Line 81: convert() of the second converter builds the XML once its parse
\* has returned.
ConvertCurrentWeek ==
    /\ wpc = "second"
    /\ BuildXml
    /\ wpc' = "returned"
    /\ UNCHANGED <<today, current_week_entries>>

(***************************************************************************)
(*                      CURRENT WEEK: PROPERTIES                           *)
(***************************************************************************)

\* The ordinal of the Monday of the week a date is in.
MondayOf(dt) == ToOrdinal(dt) - ((ToOrdinal(dt) + 6) % 7)

\* C24: process_current_week keeps a day only if its date is in the same
\* calendar week as today.
C24_KeptDaysAreOfThisWeek ==
    \A n \in 1..Len(current_week_entries) :
        MondayOf(current_week_entries[n].info.parsed) = MondayOf(today)

\* The day at place n of the emitted XML has the date, and the entry times in
\* the order, that the first parse gave the n-th kept day.
SameDayAsKept(n) ==
    LET kept == current_week_entries[n]
    IN  /\ xml[n].date = <<kept.info.parsed.year, kept.info.parsed.month,
                           kept.info.parsed.day>>
        /\ Len(xml[n].entries) = Len(kept.entries)
        /\ \A e \in 1..Len(kept.entries) :
              xml[n].entries[e].time = kept.entries[e].time

\* C25: every day of the XML process_current_week emits carries the date the
\* first parse inferred for it, with as many entries in the same order.
C25_ReparseKeepsDays ==
    wpc = "returned" =>
        /\ Len(xml) = Len(current_week_entries)
        /\ \A n \in 1..Len(xml) : SameDayAsKept(n)

(***************************************************************************)
(* READERS OF THE AGGREGATE: compile_prompt and run_meeting open the       *)
(* aggregate file of the output directory while main() may be running.     *)
(* One reader is followed, up to the moment it has read.                   *)
(***************************************************************************)

VARIABLES
    run_completed,  \* some run of main() has reached its last line
    reader_pc,      \* where the reader is
    context_text    \* what the reader got when it opened the aggregate file

avars == <<run_completed, reader_pc, context_text>>

\* The reader has not opened the file.
NotRead == [found |-> FALSE, text |-> <<>>, writing |-> FALSE, after_run |-> FALSE]

\* A reader will open the aggregate file at some moment.
ReaderInit ==
    /\ run_completed = FALSE
    /\ reader_pc = "waiting"
    /\ context_text = NotRead

\* No reader.
ReaderIdle ==
    /\ run_completed = FALSE
    /\ reader_pc = "off"
    /\ context_text = NotRead

\* main() runs while the reader has not read yet.
MainSteps(step) ==
    /\ reader_pc = "waiting"
    /\ step
    /\ UNCHANGED avars

\* The last line of main() is reached: a run has completed.
MainCompletes ==
    /\ reader_pc = "waiting"
    /\ AggregateClose
    /\ run_completed' = TRUE
    /\ UNCHANGED <<reader_pc, context_text>>

\* get_plugin_context, or load_file(context_file) of compile_prompt: the file
\* is opened and read as it is on disk at that moment; a missing file is a
\* FileNotFoundError.  writing: main() has the file open for writing.
ReaderOpens ==
    /\ reader_pc = "waiting"
    /\ context_text' =
          IF FULL_CONTEXT_FILE \in DOMAIN files
          THEN [found |-> TRUE, text |-> files[FULL_CONTEXT_FILE],
                writing |-> pc = "aggregate", after_run |-> run_completed]
          ELSE [found |-> FALSE, text |-> <<>>, writing |-> FALSE,
                after_run |-> run_completed]
    /\ reader_pc' = "read"
    /\ UNCHANGED <<pvars, run_completed>>

\* C28: once a first run of main() has completed, a reader that opens the
\* aggregate file at any moment, also during a later run, finds the complete
\* aggregate of a run: the file is there and main() is not in the middle of
\* writing it.
C28_ReaderFindsCompleteAggregate ==
    reader_pc = "read" /\ context_text.after_run =>
        context_text.found /\ ~context_text.writing

(***************************************************************************)
(* OBSERVATIONS: get_and_save_observations of ai_observer.py.  A text is a *)
(* sequence of pieces: the tags, blanks, line breaks and bullet lines.     *)
(***************************************************************************)

\* The most calls of get_and_save_observations that are followed.
MaxCalls == 3

\* What the model may answer.
ObservationResponses ==
    {<<"<new_observations>", "\n", "- likes tea", "\n", "</new_observations>">>,
     <<"<new_observations>", "</new_observations>">>,
     <<"<new_observations>", "\n", " ", "</new_observations>", "\n">>,
     <<" ", "- runs daily", "\n", "- reads", "\n">>,
     <<>>}

\* ensure_dir_file_structure, lines 75-80: the content of a new file.
initial_content == <<"---\nai-context-enabled: \"true\"\n---\n# Observations\n\n">>

\* The observations file, when there is none.
NoObservationsFile == [exists |-> FALSE, text |-> <<>>]

\* .replace("<new_observations>", "").replace("</new_observations>", "")
RemoveTags(response) ==
    SelectSeq(response,
              LAMBDA piece : piece \notin {"<new_observations>", "</new_observations>"})

\* Lines 106-110: the response without its tags, stripped.
new_observation(response) == Strip(RemoveTags(response))

VARIABLES
    observations_file,   \* OBSERVATIONS_FILE_PATH: whether it exists, its text
    opc,                 \* where get_and_save_observations is
    known_observations,  \* what the call read from the file
    observation_calls,   \* the calls made so far
    file_before,         \* the file when the current or last call was entered
    last_response,       \* the response of the last call that got one
    file_history         \* the file after each call that returned

ovars == <<observations_file, opc, known_observations, observation_calls,
           file_before, last_response, file_history>>

\* Before the first call: the file is not there, or is there as created, or
\* holds earlier observations.
ObserverInit ==
    /\ observations_file \in
          {NoObservationsFile,
           [exists |-> TRUE, text |-> initial_content],
           [exists |-> TRUE, text |-> initial_content \o <<"- sleeps late", "\n\n">>]}
    /\ opc = "idle"
    /\ known_observations = <<>>
    /\ observation_calls = 0
    /\ file_before = observations_file
    /\ last_response = <<>>
    /\ file_history = <<>>

\* get_and_save_observations is never called.
ObserverIdle ==
    /\ observations_file = NoObservationsFile
    /\ opc = "off"
    /\ known_observations = <<>>
    /\ observation_calls = 0
    /\ file_before = NoObservationsFile
    /\ last_response = <<>>
    /\ file_history = <<>>

\* Lines 97-101: the known observations are read from the file, if it is there.
ReadKnownObservations ==
    /\ opc \in {"idle", "raised"}
    /\ observation_calls < MaxCalls
    /\ known_observations' = IF observations_file.exists
                             THEN observations_file.text ELSE <<>>
    /\ file_before' = observations_file
    /\ observation_calls' = observation_calls + 1
    /\ opc' = "observing"
    /\ UNCHANGED <<observations_file, last_response, file_history>>

\* ensure_dir_file_structure: a missing file is created with initial_content.
ensure_dir_file_structure(file) ==
    IF file.exists THEN file ELSE [exists |-> TRUE, text |-> initial_content]

\* save_observation, but with the file opened with "w".
save_observation_overwriting(observation, file) ==
    [exists |-> TRUE, text |-> observation \o <<"\n\n">>]

\* save_observation: the file is made sure to be there and the observation
\* and "\n\n" are written to it in append mode.
save_observation(observation, file) ==
    [exists |-> TRUE,
     text |-> ensure_dir_file_structure(file).text \o observation \o <<"\n\n">>]

\* Lines 103-114: the model answers; what is left of the answer without its
\* tags, stripped, is saved unless it is empty.
ObservationReturns ==
    /\ opc = "observing"
    /\ \E response \in ObservationResponses :
          /\ last_response' = response
          /\ observations_file' =
                IF new_observation(response) # <<>>
                THEN save_observation(new_observation(response), observations_file)
                ELSE observations_file
    /\ file_history' = Append(file_history, observations_file')
    /\ opc' = "idle"
    /\ UNCHANGED <<known_observations, observation_calls, file_before>>

\* Line 103: the model call raises; nothing is saved.
ObservationRaises ==
    /\ opc = "observing"
    /\ opc' = "raised"
    /\ UNCHANGED <<observations_file, known_observations, observation_calls,
                   file_before, last_response, file_history>>

(***************************************************************************)
(*                      OBSERVATIONS: PROPERTIES                           *)
(***************************************************************************)

\* The last call has returned with a response, on a file that was there.
ObservedOnExistingFile ==
    /\ opc = "idle"
    /\ file_history # <<>>
    /\ file_history[Len(file_history)] = observations_file
    /\ file_before.exists

\* C30: on an existing observations file, a call whose response is empty once
\* its tags are removed leaves the file as it was; any other call leaves the
\* earlier content in place and appends the new observation and nothing else;
\* so each earlier content of the file is a prefix of every later one.
C30_ObservationsOnlyAppended ==
    /\ ObservedOnExistingFile =>
          /\ RemoveTags(last_response) = <<>> => observations_file = file_before
          /\ observations_file.exists
          /\ observations_file.text \in
                {file_before.text,
                 file_before.text \o new_observation(last_response) \o <<"\n\n">>}
          /\ new_observation(last_response) # <<>> =>
                observations_file.text # file_before.text
    /\ \A a, b \in 1..Len(file_history) :
          a <= b /\ file_history[a].exists =>
              /\ file_history[b].exists
              /\ IsPrefix(file_history[a].text, file_history[b].text)

\* Three calls on an existing file: one with an empty response between two
\* that appended an observation each.
C30_Witness ==
    /\ opc = "idle"
    /\ Len(file_history) = 3
    /\ file_history[1].exists
    /\ file_history[2] = file_history[1]
    /\ Len(file_history[3].text) > Len(file_history[2].text)
    /\ Len(file_history[1].text) > Len(initial_content) + 2

(***************************************************************************)
(*                          SPECIFICATIONS                                 *)
(***************************************************************************)

vars == <<pvars, dvars, cvars, rvars, mvars, wvars, avars, ovars>>

\* The pipeline runs; nothing else does.
Init == PipelineInit /\ DiaryIdle /\ CacheIdle /\ LimiterIdle /\ MeetingIdle /\ WeekIdle /\ ReaderIdle /\ ObserverIdle

\* One step of load_active_plugins or main.
Next ==
    \/ Invoke /\ UNCHANGED <<dvars, cvars, rvars, mvars, wvars, avars, ovars>>
    \/ LoadConfigMissing /\ UNCHANGED <<dvars, cvars, rvars, mvars, wvars, avars, ovars>>
    \/ LoadConfig /\ UNCHANGED <<dvars, cvars, rvars, mvars, wvars, avars, ovars>>
    \/ LoadPluginNotFound /\ UNCHANGED <<dvars, cvars, rvars, mvars, wvars, avars, ovars>>
    \/ LoadPluginOk /\ UNCHANGED <<dvars, cvars, rvars, mvars, wvars, avars, ovars>>
    \/ LoadPluginRaises /\ UNCHANGED <<dvars, cvars, rvars, mvars, wvars, avars, ovars>>
    \/ LoadDone /\ UNCHANGED <<dvars, cvars, rvars, mvars, wvars, avars, ovars>>
    \/ ClearOutputDir /\ UNCHANGED <<dvars, cvars, rvars, mvars, wvars, avars, ovars>>
    \/ SkipNoGetOutput /\ UNCHANGED <<dvars, cvars, rvars, mvars, wvars, avars, ovars>>
    \/ CallGetOutput /\ UNCHANGED <<dvars, cvars, rvars, mvars, wvars, avars, ovars>>
    \/ GetOutputReturns /\ UNCHANGED <<dvars, cvars, rvars, mvars, wvars, avars, ovars>>
    \/ GetOutputRaises /\ UNCHANGED <<dvars, cvars, rvars, mvars, wvars, avars, ovars>>
    \/ GetOutputExits /\ UNCHANGED <<dvars, cvars, rvars, mvars, wvars, avars, ovars>>
    \/ AggregateOpen /\ UNCHANGED <<dvars, cvars, rvars, mvars, wvars, avars, ovars>>
    \/ AggregateAppend /\ UNCHANGED <<dvars, cvars, rvars, mvars, wvars, avars, ovars>>
    \/ AggregateSkip /\ UNCHANGED <<dvars, cvars, rvars, mvars, wvars, avars, ovars>>
    \/ AggregateClose /\ UNCHANGED <<dvars, cvars, rvars, mvars, wvars, avars, ovars>>

Spec == Init /\ [][Next]_vars

\* A document is converted; nothing else runs.
InitDiary == PipelineInit /\ DiaryInit /\ CacheIdle /\ LimiterIdle /\ MeetingIdle /\ WeekIdle /\ ReaderIdle /\ ObserverIdle

\* One step of DiaryConverter.convert.
NextDiary ==
    \/ SkipBlank /\ UNCHANGED <<pvars, cvars, rvars, mvars, wvars, avars, ovars>>
    \/ DayHeader /\ UNCHANGED <<pvars, cvars, rvars, mvars, wvars, avars, ovars>>
    \/ EntryStart /\ UNCHANGED <<pvars, cvars, rvars, mvars, wvars, avars, ovars>>
    \/ AppendLine /\ UNCHANGED <<pvars, cvars, rvars, mvars, wvars, avars, ovars>>
    \/ FinishParse /\ UNCHANGED <<pvars, cvars, rvars, mvars, wvars, avars, ovars>>
    \/ BuildXml /\ UNCHANGED <<pvars, cvars, rvars, mvars, wvars, avars, ovars>>
    \/ ConvertAgain /\ UNCHANGED <<pvars, cvars, rvars, mvars, wvars, avars, ovars>>

SpecDiary == InitDiary /\ [][NextDiary]_vars

\* Wrapped plugin functions are called as time passes; nothing else runs.
InitCache == PipelineInit /\ DiaryIdle /\ CacheInit /\ LimiterIdle /\ MeetingIdle /\ WeekIdle /\ ReaderIdle /\ ObserverIdle

\* One step of the wrapper of cached_output, or of the clock.
NextCache ==
    \/ Tick /\ UNCHANGED <<pvars, dvars, rvars, mvars, wvars, avars, ovars>>
    \/ CacheHit /\ UNCHANGED <<pvars, dvars, rvars, mvars, wvars, avars, ovars>>
    \/ CacheMiss /\ UNCHANGED <<pvars, dvars, rvars, mvars, wvars, avars, ovars>>
    \/ FetchReturns /\ UNCHANGED <<pvars, dvars, rvars, mvars, wvars, avars, ovars>>
    \/ FetchFails /\ UNCHANGED <<pvars, dvars, rvars, mvars, wvars, avars, ovars>>
    \/ FetchRaises /\ UNCHANGED <<pvars, dvars, rvars, mvars, wvars, avars, ovars>>
    \/ CallOver /\ UNCHANGED <<pvars, dvars, rvars, mvars, wvars, avars, ovars>>

SpecCache == InitCache /\ [][NextCache]_vars

\* make_api_call is called again and again; nothing else runs.
InitLimiter == PipelineInit /\ DiaryIdle /\ CacheIdle /\ LimiterInit /\ MeetingIdle /\ WeekIdle /\ ReaderIdle /\ ObserverIdle

\* One step of make_api_call, or of the clock.
NextLimiter ==
    \/ TimePasses /\ UNCHANGED <<pvars, dvars, cvars, mvars, wvars, avars, ovars>>
    \/ WaitIfNecessary /\ UNCHANGED <<pvars, dvars, cvars, mvars, wvars, avars, ovars>>
    \/ SleepAndRecount /\ UNCHANGED <<pvars, dvars, cvars, mvars, wvars, avars, ovars>>
    \/ IssueRequest /\ UNCHANGED <<pvars, dvars, cvars, mvars, wvars, avars, ovars>>
    \/ RecordCall /\ UNCHANGED <<pvars, dvars, cvars, mvars, wvars, avars, ovars>>
    \/ RequestRaises /\ UNCHANGED <<pvars, dvars, cvars, mvars, wvars, avars, ovars>>

SpecLimiter == InitLimiter /\ [][NextLimiter]_vars


\* A leader-driven meeting is held; nothing else runs.
InitMeeting == PipelineInit /\ DiaryIdle /\ CacheIdle /\ LimiterIdle /\ MeetingInit /\ WeekIdle /\ ReaderIdle /\ ObserverIdle

\* One step of run_meeting of meeting.py.
NextMeeting ==
    \/ NoLeader /\ UNCHANGED <<pvars, dvars, cvars, rvars, wvars, avars, ovars>>
    \/ MeetingBegins /\ UNCHANGED <<pvars, dvars, cvars, rvars, wvars, avars, ovars>>
    \/ LeaderOpens /\ UNCHANGED <<pvars, dvars, cvars, rvars, wvars, avars, ovars>>
    \/ LeaderAsks /\ UNCHANGED <<pvars, dvars, cvars, rvars, wvars, avars, ovars>>
    \/ ParticipantResponds /\ UNCHANGED <<pvars, dvars, cvars, rvars, wvars, avars, ovars>>
    \/ FinalPlan /\ UNCHANGED <<pvars, dvars, cvars, rvars, wvars, avars, ovars>>
    \/ SaveTranscript /\ UNCHANGED <<pvars, dvars, cvars, rvars, wvars, avars, ovars>>
    \/ GenaiRaises /\ UNCHANGED <<pvars, dvars, cvars, rvars, wvars, avars, ovars>>

SpecMeeting == InitMeeting /\ [][NextMeeting]_vars

\* A meeting in rounds is held; nothing else runs.
InitRound == PipelineInit /\ DiaryIdle /\ CacheIdle /\ LimiterIdle /\ MeetingInit /\ WeekIdle /\ ReaderIdle /\ ObserverIdle

\* One step of run_meeting of meeting_round.py.
NextRound ==
    \/ RoundMeetingBegins /\ UNCHANGED <<pvars, dvars, cvars, rvars, wvars, avars, ovars>>
    \/ RoundHeader /\ UNCHANGED <<pvars, dvars, cvars, rvars, wvars, avars, ovars>>
    \/ PersonalityResponds /\ UNCHANGED <<pvars, dvars, cvars, rvars, wvars, avars, ovars>>
    \/ RoundFinalPlan /\ UNCHANGED <<pvars, dvars, cvars, rvars, wvars, avars, ovars>>
    \/ RoundSaveTranscript /\ UNCHANGED <<pvars, dvars, cvars, rvars, wvars, avars, ovars>>
    \/ RoundGenaiRaises /\ UNCHANGED <<pvars, dvars, cvars, rvars, wvars, avars, ovars>>

SpecRound == InitRound /\ [][NextRound]_vars


\* The Day Log is processed on some day; nothing else runs.
InitWeek == PipelineInit /\ DiaryInit /\ CacheIdle /\ LimiterIdle /\ MeetingIdle /\ WeekInit /\ ReaderIdle /\ ObserverIdle

\* One step of process_current_week.
NextWeek ==
    \/ SkipBlank /\ UNCHANGED <<pvars, cvars, rvars, mvars, wvars, avars, ovars>>
    \/ DayHeader /\ UNCHANGED <<pvars, cvars, rvars, mvars, wvars, avars, ovars>>
    \/ EntryStart /\ UNCHANGED <<pvars, cvars, rvars, mvars, wvars, avars, ovars>>
    \/ AppendLine /\ UNCHANGED <<pvars, cvars, rvars, mvars, wvars, avars, ovars>>
    \/ FinishParse /\ UNCHANGED <<pvars, cvars, rvars, mvars, wvars, avars, ovars>>
    \/ FilterCurrentWeek /\ UNCHANGED <<pvars, cvars, rvars, mvars, avars, ovars>>
    \/ NothingThisWeek /\ UNCHANGED <<pvars, cvars, rvars, mvars, avars, ovars>>
    \/ ConvertCurrentWeek /\ UNCHANGED <<pvars, cvars, rvars, mvars, avars, ovars>>

SpecWeek == InitWeek /\ [][NextWeek]_vars


\* main() is run again and again while a reader opens the aggregate file.
InitReader == PipelineInit /\ DiaryIdle /\ CacheIdle /\ LimiterIdle /\ MeetingIdle /\ WeekIdle /\ ReaderInit /\ ObserverIdle

\* One step of main(), or the reader's.
NextReader ==
    \/ MainSteps(Invoke) /\ UNCHANGED <<dvars, cvars, rvars, mvars, wvars, ovars>>
    \/ MainSteps(LoadConfigMissing) /\ UNCHANGED <<dvars, cvars, rvars, mvars, wvars, ovars>>
    \/ MainSteps(LoadConfig) /\ UNCHANGED <<dvars, cvars, rvars, mvars, wvars, ovars>>
    \/ MainSteps(LoadPluginNotFound) /\ UNCHANGED <<dvars, cvars, rvars, mvars, wvars, ovars>>
    \/ MainSteps(LoadPluginOk) /\ UNCHANGED <<dvars, cvars, rvars, mvars, wvars, ovars>>
    \/ MainSteps(LoadPluginRaises) /\ UNCHANGED <<dvars, cvars, rvars, mvars, wvars, ovars>>
    \/ MainSteps(LoadDone) /\ UNCHANGED <<dvars, cvars, rvars, mvars, wvars, ovars>>
    \/ MainSteps(ClearOutputDir) /\ UNCHANGED <<dvars, cvars, rvars, mvars, wvars, ovars>>
    \/ MainSteps(SkipNoGetOutput) /\ UNCHANGED <<dvars, cvars, rvars, mvars, wvars, ovars>>
    \/ MainSteps(CallGetOutput) /\ UNCHANGED <<dvars, cvars, rvars, mvars, wvars, ovars>>
    \/ MainSteps(GetOutputReturns) /\ UNCHANGED <<dvars, cvars, rvars, mvars, wvars, ovars>>
    \/ MainSteps(GetOutputRaises) /\ UNCHANGED <<dvars, cvars, rvars, mvars, wvars, ovars>>
    \/ MainSteps(GetOutputExits) /\ UNCHANGED <<dvars, cvars, rvars, mvars, wvars, ovars>>
    \/ MainSteps(AggregateOpen) /\ UNCHANGED <<dvars, cvars, rvars, mvars, wvars, ovars>>
    \/ MainSteps(AggregateAppend) /\ UNCHANGED <<dvars, cvars, rvars, mvars, wvars, ovars>>
    \/ MainSteps(AggregateSkip) /\ UNCHANGED <<dvars, cvars, rvars, mvars, wvars, ovars>>
    \/ MainCompletes /\ UNCHANGED <<dvars, cvars, rvars, mvars, wvars, ovars>>
    \/ ReaderOpens /\ UNCHANGED <<dvars, cvars, rvars, mvars, wvars, ovars>>

SpecReader == InitReader /\ [][NextReader]_vars


\* get_and_save_observations is called a few times; nothing else runs.
InitObserver == PipelineInit /\ DiaryIdle /\ CacheIdle /\ LimiterIdle /\ MeetingIdle /\ WeekIdle /\ ReaderIdle /\ ObserverInit

\* One step of get_and_save_observations.
NextObserver ==
    \/ ReadKnownObservations /\ UNCHANGED <<pvars, dvars, cvars, rvars, mvars, wvars, avars>>
    \/ ObservationReturns /\ UNCHANGED <<pvars, dvars, cvars, rvars, mvars, wvars, avars>>
    \/ ObservationRaises /\ UNCHANGED <<pvars, dvars, cvars, rvars, mvars, wvars, avars>>

SpecObserver == InitObserver /\ [][NextObserver]_vars

=============================================================================
